---- MODULE Spec2Model ----
(***************************************************************************)
(* Verification model of the FFmpeg-sandbox filter-chain builders, preset  *)
(* store, FFmpeg executor, progress stream, settings and history.          *)
(*                                                                         *)
(* These specifications share this module:                                 *)
(*   SpecChain     - the pure filter builders (filters_audio.py,           *)
(*                   filters_video.py, filter_chain.py)                    *)
(*   SpecPresets   - load_presets, reload_presets and the resolution step  *)
(*                   of /process, for every category                       *)
(*   SpecShortcuts - the shortcut handlers together with the preset cache  *)
(*                   and the per-file settings                             *)
(*   SpecExec      - the FFmpeg subprocess wrappers                        *)
(*   SpecStream    - /process-with-progress and its event stream           *)
(*   SpecSettings  - update_category_preset on the per-file settings       *)
(*   SpecHistory   - the per-file history and its aggregated read          *)
(*   SpecRequests  - the requests that name a file, category or preset     *)
(*   SpecCommand   - the FFmpeg command lines of processor.py              *)
(*   SpecVideoChain, SpecAudioBuilders - further builder calls             *)
(*   SpecConfigs   - construction of the preset config classes             *)
(*   SpecThemes    - the theme chain toggle and the custom values it sets  *)
(*   SpecSpeedValue - the speed value /process hands to build_speed_filter *)
(*   SpecReload    - reload_presets while presets.yml changes on disk      *)
(*   SpecMetadata  - the metadata files behind settings and history        *)
(***************************************************************************)
EXTENDS Integers, Sequences, FiniteSets, TLC

VARIABLES
    chain_call,     \* the builder call under test: [fn, args]
    chain_result,   \* <<>> before the call, <<value>> once it returned
    focus,          \* the category the requests of this run are about
    sys_file,       \* presets.yml
    user_file,      \* user-presets.yml
    presets_cache,  \* presets.py: the module global _presets
    settings,       \* the "settings" mapping of the input file's metadata
    last,           \* what the last handler or call returned or raised
    exec_call,      \* the subprocess wrapper called: [fn, description, timeout]
    exec_proc,      \* what the external process does: [returncode, stderr, duration]
    exec_result,    \* <<>> before the call, <<outcome>> once it returned or raised
    stream_call,    \* a /process-with-progress request: [exists, start_time, end_time]
    stream_run,     \* what the FFmpeg child does: [lines, returncode, fault]
    stream_result,  \* <<>> before the request, <<outcome>> once it was answered
    hist_store,     \* the "history" lists of the metadata files, by input file
    hist_clock,     \* [now, drawn, deleted]: the last datetime.now(), the entry
                    \* ids drawn and the deletions requested
    hist_last       \* what the last history call returned

chainVars == <<chain_call, chain_result>>

execVars == <<exec_call, exec_proc, exec_result>>

presetVars == <<focus, sys_file, user_file, presets_cache, settings, last>>

streamVars == <<stream_call, stream_run, stream_result>>

histVars == <<hist_store, hist_clock, hist_last>>

vars == <<chain_call, chain_result, focus, sys_file, user_file,
          presets_cache, settings, last, exec_call, exec_proc, exec_result,
          stream_call, stream_run, stream_result,
          hist_store, hist_clock, hist_last>>

(***************************************************************************)
(* Python values.                                                          *)
(*   float      : an exact rational <<n, d>>, d > 0, in lowest terms       *)
(*   str        : a sequence of tokens; "" is <<>>                         *)
(*   Optional   : <<>> is None, <<v>> is the value v                       *)
(***************************************************************************)
RECURSIVE GCD(_, _)
GCD(a, b) == IF b = 0 THEN a ELSE GCD(b, a % b)

Abs(x) == IF x < 0 THEN -x ELSE x

R(n, d) ==
    LET g == GCD(Abs(n), d)
    IN  IF g = 0 THEN <<0, 1>> ELSE <<n \div g, d \div g>>

RInt(n) == <<n, 1>>
REq(a, b) == a[1] * b[2] = b[1] * a[2]
RLt(a, b) == a[1] * b[2] < b[1] * a[2]
RLe(a, b) == a[1] * b[2] <= b[1] * a[2]
RGt(a, b) == RLt(b, a)
RGe(a, b) == RLe(b, a)
RMul(a, b) == R(a[1] * b[1], a[2] * b[2])
\* a / b for b > 0
RDiv(a, b) == R(a[1] * b[2], a[2] * b[1])

One == <<1, 1>>
Two == <<2, 1>>
Half == <<1, 2>>
Zero == <<0, 1>>

None == <<>>
Some(v) == <<v>>

\* one filter token of a filter string: name=args
Tok(f, a) == [f |-> f, a |-> a]
\* the "," that separates two filters in a filter string
Comma == [f |-> ",", a |-> <<>>]

\* ",".join(list) for a list of filter strings
RECURSIVE JoinComma(_)
JoinComma(list) ==
    IF Len(list) = 0 THEN <<>>
    ELSE IF Len(list) = 1 THEN list[1]
    ELSE list[1] \o <<Comma>> \o JoinComma(Tail(list))

\* list.append(x) when the Python condition `if x:` holds (x a str)
AppendIfTruthy(list, x) == IF Len(x) > 0 THEN Append(list, x) ELSE list

(***************************************************************************)
(* filters_audio.py                                                        *)
(***************************************************************************)
\* Iterations a while loop of build_speed_filter may take in the model before
\* it is reported as not terminating.
MaxLoopSteps == 12

\* while remaining > 2.0: filters.append("atempo=2.0"); remaining /= 2.0
RECURSIVE SpeedLoopHi(_, _, _)
SpeedLoopHi(remaining, filters, fuel) ==
    IF RGt(remaining, Two)
    THEN IF fuel = 0
         THEN [remaining |-> remaining, filters |-> filters, diverged |-> TRUE]
         ELSE SpeedLoopHi(RDiv(remaining, Two),
                          Append(filters, <<Tok("atempo", <<Two>>)>>), fuel - 1)
    ELSE [remaining |-> remaining, filters |-> filters, diverged |-> FALSE]

\* mutant: the lower loop runs while remaining < 1.0
RECURSIVE SpeedLoopLo_BelowOne(_, _, _)
SpeedLoopLo_BelowOne(remaining, filters, fuel) ==
    IF RLt(remaining, One)
    THEN IF fuel = 0
         THEN [remaining |-> remaining, filters |-> filters, diverged |-> TRUE]
         ELSE SpeedLoopLo_BelowOne(RDiv(remaining, Half),
                          Append(filters, <<Tok("atempo", <<Half>>)>>), fuel - 1)
    ELSE [remaining |-> remaining, filters |-> filters, diverged |-> FALSE]

\* while remaining < 0.5: filters.append("atempo=0.5"); remaining /= 0.5
RECURSIVE SpeedLoopLo(_, _, _)
SpeedLoopLo(remaining, filters, fuel) ==
    IF RLt(remaining, Half)
    THEN IF fuel = 0
         THEN [remaining |-> remaining, filters |-> filters, diverged |-> TRUE]
         ELSE SpeedLoopLo(RDiv(remaining, Half),
                          Append(filters, <<Tok("atempo", <<Half>>)>>), fuel - 1)
    ELSE [remaining |-> remaining, filters |-> filters, diverged |-> FALSE]

\* mutant: a remainder on the boundary of the range is not emitted
SpeedFinal_OpenRange(remaining, filters) ==
    IF RLt(Half, remaining) /\ RLt(remaining, Two) /\ ~REq(remaining, One)
    THEN Append(filters, <<Tok("atempo", <<remaining>>)>>)
    ELSE filters

\* if 0.5 <= remaining <= 2.0 and remaining != 1.0: filters.append(f"atempo={remaining}")
SpeedFinal(remaining, filters) ==
    IF RLe(Half, remaining) /\ RLe(remaining, Two) /\ ~REq(remaining, One)
    THEN Append(filters, <<Tok("atempo", <<remaining>>)>>)
    ELSE filters

\* build_speed_filter(speed): [diverged, str]
build_speed_filter(speed) ==
    IF REq(speed, One) THEN [diverged |-> FALSE, str |-> <<>>]
    ELSE LET hi == SpeedLoopHi(speed, <<>>, MaxLoopSteps)
             lo == SpeedLoopLo(hi.remaining, hi.filters, MaxLoopSteps)
         IN  IF hi.diverged \/ lo.diverged
             THEN [diverged |-> TRUE, str |-> <<>>]
             ELSE [diverged |-> FALSE,
                   str |-> JoinComma(SpeedFinal(lo.remaining, lo.filters))]

\* int(sample_rate * math.pow(2, semitones / 12)) at sample_rate = 44100, and
\* 1 / ratio formatted "%.6f" (in millionths), as the code computes them.
PitchSemitones == -12..12
PitchNewRate(semitones) ==
    CASE semitones = -12 -> 22050
      [] semitones = -11 -> 23361
      [] semitones = -10 -> 24750
      [] semitones = -9 -> 26222
      [] semitones = -8 -> 27781
      [] semitones = -7 -> 29433
      [] semitones = -6 -> 31183
      [] semitones = -5 -> 33037
      [] semitones = -4 -> 35002
      [] semitones = -3 -> 37083
      [] semitones = -2 -> 39288
      [] semitones = -1 -> 41624
      [] semitones = 0 -> 44100
      [] semitones = 1 -> 46722
      [] semitones = 2 -> 49500
      [] semitones = 3 -> 52444
      [] semitones = 4 -> 55562
      [] semitones = 5 -> 58866
      [] semitones = 6 -> 62366
      [] semitones = 7 -> 66075
      [] semitones = 8 -> 70004
      [] semitones = 9 -> 74167
      [] semitones = 10 -> 78577
      [] semitones = 11 -> 83249
      [] semitones = 12 -> 88200
PitchTempoMicro(semitones) ==
    CASE semitones = -12 -> 2000000
      [] semitones = -11 -> 1887749
      [] semitones = -10 -> 1781797
      [] semitones = -9 -> 1681793
      [] semitones = -8 -> 1587401
      [] semitones = -7 -> 1498307
      [] semitones = -6 -> 1414214
      [] semitones = -5 -> 1334840
      [] semitones = -4 -> 1259921
      [] semitones = -3 -> 1189207
      [] semitones = -2 -> 1122462
      [] semitones = -1 -> 1059463
      [] semitones = 0 -> 1000000
      [] semitones = 1 -> 943874
      [] semitones = 2 -> 890899
      [] semitones = 3 -> 840896
      [] semitones = 4 -> 793701
      [] semitones = 5 -> 749154
      [] semitones = 6 -> 707107
      [] semitones = 7 -> 667420
      [] semitones = 8 -> 629961
      [] semitones = 9 -> 594604
      [] semitones = 10 -> 561231
      [] semitones = 11 -> 529732
      [] semitones = 12 -> 500000

\* the filter, were atempo given the ratio itself instead of 1 / ratio
build_pitch_filter_TempoNotInverted(semitones) ==
    IF semitones = 0 THEN <<>>
    ELSE << Tok("asetrate", <<PitchNewRate(semitones)>>), Comma,
            Tok("atempo", <<PitchTempoMicro(-semitones)>>), Comma,
            Tok("aresample", <<44100>>) >>

\* build_pitch_filter(semitones, sample_rate=44100)
build_pitch_filter(semitones) ==
    IF semitones = 0 THEN <<>>
    ELSE << Tok("asetrate", <<PitchNewRate(semitones)>>), Comma,
            Tok("atempo", <<PitchTempoMicro(semitones)>>), Comma,
            Tok("aresample", <<44100>>) >>

\* the filter, were nr clamped to the 97 the engine accepts
build_noise_reduction_filter_Clamped(noise_floor, noise_reduction) ==
    IF REq(noise_reduction, Zero) THEN <<>>
    ELSE << Tok("afftdn", <<noise_floor,
                            IF RLt(RInt(97), RMul(noise_reduction, RInt(100)))
                            THEN RInt(97) ELSE RMul(noise_reduction, RInt(100))>>) >>

\* build_noise_reduction_filter(noise_floor, noise_reduction)
build_noise_reduction_filter(noise_floor, noise_reduction) ==
    IF REq(noise_reduction, Zero) THEN <<>>
    ELSE << Tok("afftdn", <<noise_floor, RMul(noise_reduction, RInt(100))>>) >>

\* build_compressor_filter(threshold, ratio, attack, release, makeup)
build_compressor_filter(threshold, ratio, attack, release, makeup) ==
    IF RLe(ratio, One) THEN <<>>
    ELSE << Tok("acompressor", <<threshold, ratio, attack, release, makeup>>) >>

(***************************************************************************)
(* filters_video.py                                                        *)
(***************************************************************************)
build_eq_filter(brightness, contrast, saturation) ==
    IF REq(brightness, Zero) /\ REq(contrast, One) /\ REq(saturation, One)
    THEN <<>>
    ELSE << Tok("eq", <<brightness, contrast, saturation>>) >>

build_blur_filter(sigma) ==
    IF RLe(sigma, Zero) THEN <<>> ELSE << Tok("gblur", <<sigma>>) >>

build_sharpen_filter(amount) ==
    IF RLe(amount, Zero) THEN <<>> ELSE << Tok("unsharp", <<amount>>) >>

\* return filter_str if filter_str else ""
build_transform_filter(filter_str) ==
    IF Len(filter_str) > 0 THEN filter_str ELSE <<>>

(***************************************************************************)
(* filter_chain.py                                                         *)
(***************************************************************************)
\* mutant: any decay value at all counts as an echo
AnyPositive_NonEmpty(decay_values) == Len(decay_values) > 0

\* any(d > 0 for d in decay_values)
AnyPositive(decay_values) ==
    \E i \in 1..Len(decay_values) : RGt(decay_values[i], Zero)

\* mutant: the pitch fragment is appended before the speed fragment
AudioFilterList_PitchBeforeSpeed(p) ==
    LET f1 == IF ~REq(p.volume, One)
              THEN << <<Tok("volume", <<p.volume>>)>> >> ELSE <<>>
        f2 == IF p.highpass > 20
              THEN Append(f1, <<Tok("highpass", <<p.highpass>>)>>) ELSE f1
        f3 == IF p.lowpass < 20000
              THEN Append(f2, <<Tok("lowpass", <<p.lowpass>>)>>) ELSE f2
        f4 == IF Len(p.delays) > 0 /\ Len(p.decays) > 0 /\ AnyPositive(p.decays)
              THEN Append(f3, <<Tok("aecho", <<p.delays, p.decays>>)>>) ELSE f3
        f5 == AppendIfTruthy(f4, build_pitch_filter(p.pitch_semitones))
        f6 == AppendIfTruthy(f5, build_speed_filter(p.speed).str)
        f7 == AppendIfTruthy(f6, build_noise_reduction_filter(p.noise_floor,
                                                              p.noise_reduction))
        f8 == AppendIfTruthy(f7, build_compressor_filter(p.comp_threshold,
                                    p.comp_ratio, p.comp_attack, p.comp_release,
                                    p.comp_makeup))
    IN  f8

\* the list `filters` of build_audio_filter_chain just before the final join.
\* delays and decays are the "|"-separated items of the two strings.
AudioFilterList(p) ==
    LET f1 == IF ~REq(p.volume, One)
              THEN << <<Tok("volume", <<p.volume>>)>> >> ELSE <<>>
        f2 == IF p.highpass > 20
              THEN Append(f1, <<Tok("highpass", <<p.highpass>>)>>) ELSE f1
        f3 == IF p.lowpass < 20000
              THEN Append(f2, <<Tok("lowpass", <<p.lowpass>>)>>) ELSE f2
        f4 == IF Len(p.delays) > 0 /\ Len(p.decays) > 0 /\ AnyPositive(p.decays)
              THEN Append(f3, <<Tok("aecho", <<p.delays, p.decays>>)>>) ELSE f3
        f5 == AppendIfTruthy(f4, build_speed_filter(p.speed).str)
        f6 == AppendIfTruthy(f5, build_pitch_filter(p.pitch_semitones))
        f7 == AppendIfTruthy(f6, build_noise_reduction_filter(p.noise_floor,
                                                              p.noise_reduction))
        f8 == AppendIfTruthy(f7, build_compressor_filter(p.comp_threshold,
                                    p.comp_ratio, p.comp_attack, p.comp_release,
                                    p.comp_makeup))
    IN  f8

\* mutant: the join is returned even when the list is empty
JoinOrNone_AlwaysJoin(filters) == Some(JoinComma(filters))

\* return ",".join(filters) if filters else None
JoinOrNone(filters) ==
    IF Len(filters) > 0 THEN Some(JoinComma(filters)) ELSE None

build_audio_filter_chain(p) == JoinOrNone(AudioFilterList(p))

\* the list `filters` of build_video_filter_chain just before the final join
VideoFilterList(p) ==
    LET f1 == AppendIfTruthy(<<>>, build_eq_filter(p.brightness, p.contrast,
                                                   p.saturation))
        f2 == AppendIfTruthy(f1, build_blur_filter(p.blur_sigma))
        f3 == AppendIfTruthy(f2, build_sharpen_filter(p.sharpen_amount))
        f4 == AppendIfTruthy(f3, build_transform_filter(p.transform))
        f5 == IF ~REq(p.speed, One)
              THEN Append(f4, <<Tok("setpts", <<RDiv(One, p.speed)>>)>>) ELSE f4
    IN  f5

build_video_filter_chain(p) == JoinOrNone(VideoFilterList(p))

(***************************************************************************)
(* SpecChain: one builder call on inputs drawn from bounded sets.          *)
(***************************************************************************)
\* speeds k / SpeedDen for k in 1..MaxSpeedNum
SpeedDen == 8
MaxSpeedNum == 72

SpeedInputs == { R(k, SpeedDen) : k \in 1..MaxSpeedNum }

EchoInputs ==
    { [delays |-> <<>>, decays |-> <<>>],
      [delays |-> <<1>>, decays |-> <<Zero>>],
      [delays |-> <<10, 20>>, decays |-> <<Zero, Zero>>],
      [delays |-> <<10, 20>>, decays |-> <<R(1, 5), R(3, 20)>>],
      [delays |-> <<10, 20>>, decays |-> <<Zero, R(3, 20)>>],
      [delays |-> <<>>, decays |-> <<R(1, 5)>>] }

\* the default arguments of build_audio_filter_chain
AudioDefaults ==
    [volume |-> One, highpass |-> 20, lowpass |-> 20000, delays |-> <<>>,
     decays |-> <<>>, speed |-> One, pitch_semitones |-> 0,
     noise_floor |-> RInt(-25), noise_reduction |-> Zero,
     comp_threshold |-> Zero, comp_ratio |-> One, comp_attack |-> RInt(20),
     comp_release |-> RInt(250), comp_makeup |-> Zero]

\* the default arguments of build_video_filter_chain
VideoDefaults ==
    [brightness |-> Zero, contrast |-> One, saturation |-> One,
     blur_sigma |-> Zero, sharpen_amount |-> Zero, transform |-> <<>>,
     speed |-> One]

AudioInputs ==
    {AudioDefaults} \cup
    { [volume |-> v, highpass |-> hp, lowpass |-> lp,
       delays |-> e.delays, decays |-> e.decays, speed |-> s,
       pitch_semitones |-> st, noise_floor |-> RInt(-25), noise_reduction |-> nr,
       comp_threshold |-> RInt(-18), comp_ratio |-> cr, comp_attack |-> RInt(20),
       comp_release |-> RInt(250), comp_makeup |-> Zero] :
      v \in {One, R(3, 2)}, hp \in {20, 100}, lp \in {20000, 4000},
      e \in EchoInputs, s \in {One, Two, RInt(3), R(1, 4)},
      st \in {0, 4}, nr \in {Zero, Half}, cr \in {One, RInt(4)} }

TransformInputs ==
    { <<>>, <<Tok("hflip", <<>>)>>,
      <<Tok("transpose", <<1>>), Comma, Tok("transpose", <<1>>)>> }

VideoInputs ==
    { [brightness |-> b, contrast |-> c, saturation |-> s, blur_sigma |-> bl,
       sharpen_amount |-> sh, transform |-> t, speed |-> sp] :
      b \in {Zero, R(1, 5)}, c \in {One, R(13, 10)}, s \in {One, Zero},
      bl \in {Zero, RInt(3)}, sh \in {Zero, One}, t \in TransformInputs,
      sp \in {One, Two, Half} }

ChainCalls ==
    { [fn |-> "build_speed_filter", args |-> s] : s \in SpeedInputs }
    \cup { [fn |-> "build_audio_filter_chain", args |-> a] : a \in AudioInputs }
    \cup { [fn |-> "build_video_filter_chain", args |-> v] : v \in VideoInputs }

\* the preset store is not part of the builder runs
PresetsIdle ==
    /\ focus = <<>>
    /\ sys_file = <<>>
    /\ user_file = <<>>
    /\ presets_cache = <<>>
    /\ settings = <<>>
    /\ last = <<>>

\* no subprocess wrapper is called in the builder and preset runs
ExecIdle ==
    /\ exec_call = <<>>
    /\ exec_proc = <<>>
    /\ exec_result = <<>>

\* no streaming request is made outside the streaming runs
StreamIdle ==
    /\ stream_call = <<>>
    /\ stream_run = <<>>
    /\ stream_result = <<>>

\* the history store is only used in the history runs
HistIdle ==
    /\ hist_store = <<>>
    /\ hist_clock = <<>>
    /\ hist_last = <<>>

InitChain ==
    /\ PresetsIdle
    /\ ExecIdle
    /\ StreamIdle
    /\ HistIdle
    /\ chain_call \in ChainCalls
    /\ chain_result = <<>>

CallBuildSpeed ==
    /\ chain_call.fn = "build_speed_filter"
    /\ chain_result = <<>>
    /\ chain_result' = <<build_speed_filter(chain_call.args)>>
    /\ UNCHANGED <<chain_call, presetVars, execVars, streamVars, histVars>>

CallBuildAudioChain ==
    /\ chain_call.fn = "build_audio_filter_chain"
    /\ chain_result = <<>>
    /\ chain_result' = <<[filters |-> AudioFilterList(chain_call.args),
                          value |-> build_audio_filter_chain(chain_call.args)]>>
    /\ UNCHANGED <<chain_call, presetVars, execVars, streamVars, histVars>>

CallBuildVideoChain ==
    /\ chain_call.fn = "build_video_filter_chain"
    /\ chain_result = <<>>
    /\ chain_result' = <<[filters |-> VideoFilterList(chain_call.args),
                          value |-> build_video_filter_chain(chain_call.args)]>>
    /\ UNCHANGED <<chain_call, presetVars, execVars, streamVars, histVars>>

NextChain == CallBuildSpeed \/ CallBuildAudioChain \/ CallBuildVideoChain

SpecChain == InitChain /\ [][NextChain]_vars

(***************************************************************************)
(* Properties of the filter builders                                       *)
(***************************************************************************)
AudioReturned ==
    chain_call.fn = "build_audio_filter_chain" /\ chain_result # <<>>
VideoReturned ==
    chain_call.fn = "build_video_filter_chain" /\ chain_result # <<>>
SpeedReturned ==
    chain_call.fn = "build_speed_filter" /\ chain_result # <<>>

\* position of an audio fragment in the fixed order, by its leading filter
AudioRank(fragment) ==
    LET f == fragment[1].f
    IN  CASE f = "volume" -> 1
          [] f = "highpass" -> 2
          [] f = "lowpass" -> 3
          [] f = "aecho" -> 4
          [] f = "atempo" -> 5
          [] f = "asetrate" -> 6
          [] f = "afftdn" -> 7
          [] f = "acompressor" -> 8
          [] OTHER -> 0

\* C1: whichever effects are active, the fragments of build_audio_filter_chain
\* are in the order volume, highpass, lowpass, aecho, atempo (speed),
\* asetrate (pitch), afftdn, acompressor, and the result joins them in that order.
C1_AudioFragmentOrder ==
    AudioReturned =>
        LET fs == chain_result[1].filters
        IN  /\ \A i \in 1..Len(fs) : AudioRank(fs[i]) \in 1..8
            /\ \A i, j \in 1..Len(fs) :
                    i < j => AudioRank(fs[i]) < AudioRank(fs[j])
            /\ Len(fs) > 0 => chain_result[1].value = Some(JoinComma(fs))

\* all eight audio fragments are emitted in one chain
C1_Witness ==
    AudioReturned /\ Len(chain_result[1].filters) = 8

\* C2: both chain builders return None exactly when no fragment was produced,
\* never the empty string, and None for the all-default arguments.
C2_AbsentIffNoFragment ==
    (AudioReturned \/ VideoReturned) =>
        LET res == chain_result[1]
        IN  /\ (res.value = None) <=> (Len(res.filters) = 0)
            /\ res.value # None => Len(res.value[1]) > 0
            /\ chain_call.args \in {AudioDefaults, VideoDefaults}
                    => res.value = None

\* the all-default audio call has returned None
C2_Witness ==
    /\ AudioReturned
    /\ chain_call.args = AudioDefaults
    /\ chain_result[1].value = None

RECURSIVE Pow2(_)
Pow2(k) == IF k = 0 THEN 1 ELSE 2 * Pow2(k - 1)

\* the least number of halvings that brings r > 2.0 down to at most 2.0
HalvingsNeeded(r) ==
    IF RGt(r, Two)
    THEN CHOOSE k \in 1..MaxLoopSteps :
            /\ RLe(RDiv(r, RInt(Pow2(k))), Two)
            /\ RGt(RDiv(r, RInt(Pow2(k - 1))), Two)
    ELSE 0

\* the least number of doublings that brings r < 0.5 up to at least 0.5
DoublingsNeeded(r) ==
    IF RLt(r, Half)
    THEN CHOOSE k \in 1..MaxLoopSteps :
            /\ RGe(RMul(r, RInt(Pow2(k))), Half)
            /\ RLt(RMul(r, RInt(Pow2(k - 1))), Half)
    ELSE 0

\* what is left of r after those halvings or doublings
SpeedRemainder(r) ==
    RMul(RDiv(r, RInt(Pow2(HalvingsNeeded(r)))), RInt(Pow2(DoublingsNeeded(r))))

\* number of atempo filters in a filter string
AtempoCount(str) == Cardinality({ i \in 1..Len(str) : str[i].f = "atempo" })

\* C3: for r > 0 build_speed_filter emits as many atempo fragments as halvings
\* or doublings are needed to bring r into [0.5, 2.0], plus one iff the
\* remainder is not 1.0; one fragment for r in [0.5, 2.0] other than 1.0, and
\* the empty string iff r = 1.0.
C3_SpeedFragmentCount ==
    SpeedReturned =>
        LET r == chain_call.args
            res == chain_result[1]
            n == AtempoCount(res.str)
        IN  /\ ~res.diverged
            /\ n = HalvingsNeeded(r) + DoublingsNeeded(r)
                    + (IF REq(SpeedRemainder(r), One) THEN 0 ELSE 1)
            /\ (RLe(Half, r) /\ RLe(r, Two) /\ ~REq(r, One)) => n = 1
            /\ (Len(res.str) = 0) <=> REq(r, One)
            /\ REq(r, RInt(4)) => n = 2
            /\ REq(r, RInt(3)) => n = 2
            /\ REq(r, R(1, 4)) => n = 2

\* speed 3.0 gave atempo=2.0,atempo=1.5
C3_Witness ==
    /\ SpeedReturned
    /\ chain_call.args = RInt(3)
    /\ chain_result[1].str =
           <<Tok("atempo", <<Two>>), Comma, Tok("atempo", <<R(3, 2)>>)>>

(***************************************************************************)
(* The preset store: presets.py, user_shortcuts.py, settings.py and the    *)
(* shortcut and /process handlers of routers/audio.py.                     *)
(*                                                                         *)
(* A preset key or display name is a Python str, kept as its sequence of   *)
(* characters.  A YAML mapping is a function; a parsed file is             *)
(* data[media type][category][key].                                        *)
(***************************************************************************)
MediaTypes == {"audio", "video"}

\* CONFIG_CLASSES: each config class is given by the parameter fields it
\* requires next to name and description
CONFIG_CLASSES ==
    [audio |->
        [volume |-> {"volume"},
         tunnel |-> {"delays", "decays"},
         frequency |-> {"highpass", "lowpass"},
         speed |-> {"speed"},
         pitch |-> {"semitones"},
         noise_reduction |-> {"noise_floor", "noise_reduction"},
         compressor |-> {"threshold", "ratio", "attack", "release", "makeup"}],
     video |->
        [brightness |-> {"brightness"},
         contrast |-> {"contrast"},
         saturation |-> {"saturation"},
         blur |-> {"sigma"},
         sharpen |-> {"amount"},
         transform |-> {"filter"}]]

Categories(mtype) == DOMAIN CONFIG_CLASSES[mtype]

\* every <<media type, category>> that has a config class
AllPresetCategories ==
    { mc \in MediaTypes \X (Categories("audio") \cup Categories("video")) :
        mc[2] \in Categories(mc[1]) }

\* the fields every config class requires: name, description
BaseFields == {"name", "description"}

\* the parameters with which a category leaves the media unchanged
NeutralParams ==
    [volume |-> [volume |-> One],
     tunnel |-> [delays |-> <<1>>, decays |-> <<Zero>>],
     frequency |-> [highpass |-> 20, lowpass |-> 20000],
     speed |-> [speed |-> One],
     pitch |-> [semitones |-> Zero],
     noise_reduction |-> [noise_floor |-> R(-25, 1), noise_reduction |-> Zero],
     compressor |-> [threshold |-> Zero, ratio |-> One, attack |-> RInt(20),
                     release |-> RInt(250), makeup |-> Zero],
     brightness |-> [brightness |-> Zero],
     contrast |-> [contrast |-> One],
     saturation |-> [saturation |-> One],
     blur |-> [sigma |-> Zero],
     sharpen |-> [amount |-> Zero],
     transform |-> [filter |-> ""]]

\* the parameters of one effect-bearing system preset per category
SystemParams ==
    [volume |-> [volume |-> R(3, 2)],
     tunnel |-> [delays |-> <<10, 20>>, decays |-> <<R(1, 5), R(3, 20)>>],
     frequency |-> [highpass |-> 200, lowpass |-> 20000],
     speed |-> [speed |-> R(3, 2)],
     pitch |-> [semitones |-> RInt(4)],
     noise_reduction |-> [noise_floor |-> R(-30, 1), noise_reduction |-> Half],
     compressor |-> [threshold |-> R(-20, 1), ratio |-> Two, attack |-> RInt(20),
                     release |-> RInt(250), makeup |-> Two],
     brightness |-> [brightness |-> R(1, 5)],
     contrast |-> [contrast |-> R(13, 10)],
     saturation |-> [saturation |-> R(3, 2)],
     blur |-> [sigma |-> Two],
     sharpen |-> [amount |-> One],
     transform |-> [filter |-> "hflip"]]

\* the parameters a user submits when saving or importing a shortcut
UserParams ==
    [volume |-> [volume |-> RInt(3)],
     tunnel |-> [delays |-> <<30>>, decays |-> <<R(2, 5)>>],
     frequency |-> [highpass |-> 300, lowpass |-> 8000],
     speed |-> [speed |-> R(3, 4)],
     pitch |-> [semitones |-> R(-4, 1)],
     noise_reduction |-> [noise_floor |-> R(-40, 1), noise_reduction |-> R(3, 4)],
     compressor |-> [threshold |-> R(-30, 1), ratio |-> RInt(4), attack |-> RInt(5),
                     release |-> RInt(100), makeup |-> RInt(6)],
     brightness |-> [brightness |-> R(-1, 5)],
     contrast |-> [contrast |-> R(7, 10)],
     saturation |-> [saturation |-> Zero],
     blur |-> [sigma |-> RInt(5)],
     sharpen |-> [amount |-> Two],
     transform |-> [filter |-> "vflip"]]

KeyNone == <<"n", "o", "n", "e">>
KeyK1 == <<"k", "1">>
KeyMine == <<"m", "i", "n", "e">>
KeyBad == <<"b", "a", "d">>
KeyUnknown == <<"z", "z">>

EmptyMap == <<>>

\* d.get(k, default)
Get(d, k, default) == IF k \in DOMAIN d THEN d[k] ELSE default

\* the dict d after d[k] = v
Put(d, k, v) == [x \in DOMAIN d \cup {k} |-> IF x = k THEN v ELSE d[x]]

\* the dict d after del d[k]
Del(d, k) == [x \in DOMAIN d \ {k} |-> d[x]]

\* the dict d after d.update(u)
Update(d, u) == [x \in DOMAIN d \cup DOMAIN u |-> IF x \in DOMAIN u THEN u[x] ELSE d[x]]

(***************************************************************************)
(* One entry of a preset file as yaml.safe_load returns it: a mapping      *)
(* (with the base fields it carries and its parameter fields) or some      *)
(* other YAML value such as null.                                          *)
(***************************************************************************)
RawEntry(params) == [mapping |-> TRUE, base |-> BaseFields, params |-> params]
RawIncomplete == [mapping |-> TRUE, base |-> BaseFields, params |-> EmptyMap]
RawScalar == [mapping |-> FALSE, base |-> {}, params |-> EmptyMap]

\* config_class(**preset_data): the validated config, or the exception raised
Validate(fields, raw) ==
    IF ~raw.mapping
    THEN [err |-> "TypeError", config |-> EmptyMap]
    ELSE IF BaseFields \subseteq raw.base /\ fields \subseteq DOMAIN raw.params
         THEN [err |-> "", config |-> [f \in fields |-> raw.params[f]]]
         ELSE [err |-> "ValidationError", config |-> EmptyMap]

\* validated.model_dump() as it is written back to the user file
ModelDump(config) == RawEntry(config)

(***************************************************************************)
(* The loaders.  A preset file is [exists, data]; a loader returns         *)
(* [err, presets] where err names the exception that escaped it ("" when   *)
(* it returned).                                                           *)
(***************************************************************************)
\* the entries of a category that pass validation, as key -> config
ValidEntries(fields, entries) ==
    LET checked == [k \in DOMAIN entries |-> Validate(fields, entries[k])]
    IN  [k \in { x \in DOMAIN entries : checked[x].err = "" } |-> checked[k].config]

\* the exceptions the entries of a file raise when validated
EntryErrors(data) ==
    UNION { UNION { { Validate(CONFIG_CLASSES[m][c], data[m][c][k]).err :
                        k \in DOMAIN data[m][c] } :
                    c \in Categories(m) \cap DOMAIN data[m] } :
            m \in MediaTypes \cap DOMAIN data } \ {""}

\* load_user_shortcuts: an invalid entry is skipped, any other exception
\* escapes
load_user_shortcuts(file) ==
    IF ~file.exists
    THEN [err |-> "", presets |-> [m \in MediaTypes |-> EmptyMap]]
    ELSE IF "TypeError" \in EntryErrors(file.data)
         THEN [err |-> "TypeError", presets |-> EmptyMap]
         ELSE [err |-> "",
               presets |->
                 [m \in MediaTypes |->
                   [c \in Categories(m) |->
                     IF c \in DOMAIN Get(file.data, m, EmptyMap)
                     THEN ValidEntries(CONFIG_CLASSES[m][c], file.data[m][c])
                     ELSE EmptyMap]]]

\* the validation of the system file, were an invalid entry skipped as in
\* the user file
SystemError_SkipInvalid(sysf) ==
    IF ~sysf.exists THEN "FileNotFoundError" ELSE ""

\* the exception that ends the validation of the system file, "" if none;
\* the system files of a run hold at most one entry that raises
SystemError(sysf) ==
    IF ~sysf.exists THEN "FileNotFoundError"
    ELSE IF EntryErrors(sysf.data) = {} THEN ""
    ELSE CHOOSE e \in EntryErrors(sysf.data) : TRUE

\* validated_presets before the user presets are merged
SystemPresets(sysf) ==
    [m \in MediaTypes |->
      [c \in Categories(m) |->
        IF c \in DOMAIN Get(sysf.data, m, EmptyMap)
        THEN ValidEntries(CONFIG_CLASSES[m][c], sysf.data[m][c])
        ELSE EmptyMap]]

\* the merge of the user presets into validated_presets
MergeUser(validated, user) ==
    IF user.err # ""
    THEN validated
    ELSE [m \in MediaTypes |->
           [c \in DOMAIN validated[m] |->
             IF c \in DOMAIN Get(user.presets, m, EmptyMap)
             THEN Update(validated[m][c], user.presets[m][c])
             ELSE validated[m][c]]]

\* load_presets: [err, presets]; the caller installs presets in the cache
\* when err is ""
load_presets(sysf, userf) ==
    IF SystemError(sysf) = ""
    THEN [err |-> "",
          presets |-> MergeUser(SystemPresets(sysf), load_user_shortcuts(userf))]
    ELSE [err |-> SystemError(sysf), presets |-> EmptyMap]

(***************************************************************************)
(* The files and settings a run starts from.  Every category but the       *)
(* focus category holds the well-formed system presets "none" and "k1"     *)
(* and no user preset.                                                     *)
(***************************************************************************)
SystemBaseline ==
    [m \in MediaTypes |->
      [c \in Categories(m) |->
        KeyNone :> RawEntry(NeutralParams[c]) @@ KeyK1 :> RawEntry(SystemParams[c])]]

WithCategory(data, m, c, entries) == [data EXCEPT ![m] = Put(@, c, entries)]
WithoutCategory(data, m, c) == [data EXCEPT ![m] = Del(@, c)]

File(data) == [exists |-> TRUE, data |-> data]
NoFile == [exists |-> FALSE, data |-> EmptyMap]

\* presets.yml: well-formed; without the category; with the category's
\* neutral preset under another key; with a preset that fails validation;
\* with a preset that is not a mapping; absent
SystemFiles(m, c) ==
    { File(SystemBaseline),
      File(WithoutCategory(SystemBaseline, m, c)),
      File(WithCategory(SystemBaseline, m, c, KeyK1 :> RawEntry(SystemParams[c]))),
      File(WithCategory(SystemBaseline, m, c, Put(SystemBaseline[m][c], KeyBad, RawIncomplete))),
      File(WithCategory(SystemBaseline, m, c, Put(SystemBaseline[m][c], KeyBad, RawScalar))),
      NoFile }

UserEmpty == [m \in MediaTypes |-> EmptyMap]

\* user-presets.yml: absent; a shortcut of its own next to one under the
\* key of a system preset; a valid shortcut next to one that fails
\* validation; a valid shortcut next to one that is not a mapping
UserFiles(m, c) ==
    { NoFile,
      File(WithCategory(UserEmpty, m, c,
             KeyMine :> RawEntry(UserParams[c]) @@ KeyK1 :> RawEntry(UserParams[c]))),
      File(WithCategory(UserEmpty, m, c,
             KeyMine :> RawEntry(UserParams[c]) @@ KeyBad :> RawIncomplete)),
      File(WithCategory(UserEmpty, m, c,
             KeyMine :> RawEntry(UserParams[c]) @@ KeyBad :> RawScalar)) }

\* the field of each category that a partial custom_values mapping carries
OverrideField ==
    [volume |-> "volume", tunnel |-> "decays", frequency |-> "highpass",
     speed |-> "speed", pitch |-> "semitones", noise_reduction |-> "noise_floor",
     compressor |-> "ratio", brightness |-> "brightness", contrast |-> "contrast",
     saturation |-> "saturation", blur |-> "sigma", sharpen |-> "amount",
     transform |-> "filter"]

\* custom_values: empty; one field; every field; only a key no filter reads
CustomChoices(m, c) ==
    { EmptyMap,
      [f \in {OverrideField[c]} |-> UserParams[c][f]],
      UserParams[c],
      [f \in {"note"} |-> "theme"] }

\* the "settings" mapping of the input file's metadata: without the
\* category, or with a preset key and custom values for it
SettingsFiles(m, c) ==
    { EmptyMap }
    \cup { c :> [preset |-> p, custom_values |-> cv] :
             p \in {KeyNone, KeyK1, KeyUnknown}, cv \in CustomChoices(m, c) }

ChainIdle ==
    /\ chain_call = <<>>
    /\ chain_result = <<>>

Outcome(op, err) ==
    [op |-> op, err |-> err, returned |-> None, config |-> EmptyMap, values |-> EmptyMap]

InitPresets ==
    /\ ChainIdle
    /\ ExecIdle
    /\ StreamIdle
    /\ HistIdle
    /\ focus \in AllPresetCategories
    /\ sys_file \in SystemFiles(focus[1], focus[2])
    /\ user_file \in UserFiles(focus[1], focus[2])
    /\ presets_cache = EmptyMap
    /\ settings \in SettingsFiles(focus[1], focus[2])
    /\ last = Outcome("start", "")

\* a call of load_presets()
LoadPresets ==
    \E r \in {load_presets(sys_file, user_file)} :
        /\ presets_cache' = IF r.err = "" THEN r.presets ELSE presets_cache
        /\ last' = [Outcome("load_presets", r.err) EXCEPT
                      !.returned = IF r.err = "" THEN Some(r.presets) ELSE None]
        /\ UNCHANGED <<chainVars, execVars, streamVars, histVars, focus, sys_file, user_file, settings>>

\* a call of reload_presets(): the cache is cleared, then load_presets()
ReloadPresets ==
    \E r \in {load_presets(sys_file, user_file)} :
        /\ presets_cache' = IF r.err = "" THEN r.presets ELSE EmptyMap
        /\ last' = [Outcome("reload_presets", r.err) EXCEPT
                      !.returned = IF r.err = "" THEN Some(r.presets) ELSE None]
        /\ UNCHANGED <<chainVars, execVars, streamVars, histVars, focus, sys_file, user_file, settings>>

(***************************************************************************)
(* generate_shortcut_key                                                   *)
(***************************************************************************)
UpperChars == <<"A", "B", "C", "D", "E", "F", "G", "H", "I", "J", "K", "L", "M",
                "N", "O", "P", "Q", "R", "S", "T", "U", "V", "W", "X", "Y", "Z">>
LowerChars == <<"a", "b", "c", "d", "e", "f", "g", "h", "i", "j", "k", "l", "m",
                "n", "o", "p", "q", "r", "s", "t", "u", "v", "w", "x", "y", "z">>
DigitChars == <<"0", "1", "2", "3", "4", "5", "6", "7", "8", "9">>

Range(seq) == { seq[i] : i \in DOMAIN seq }

\* str.lower(), one character
LowerChar(ch) ==
    IF ch \in Range(UpperChars)
    THEN LowerChars[CHOOSE i \in DOMAIN UpperChars : UpperChars[i] = ch]
    ELSE ch

\* the class [a-z0-9]
IsKeyChar(ch) == ch \in Range(LowerChars) \cup Range(DigitChars)

\* re.sub(r"[^a-z0-9]+", "_", key): every maximal run of other characters
\* becomes one "_"
RECURSIVE SubRuns(_, _)
SubRuns(key, inRun) ==
    IF key = <<>> THEN <<>>
    ELSE IF IsKeyChar(Head(key)) THEN <<Head(key)>> \o SubRuns(Tail(key), FALSE)
    ELSE IF inRun THEN SubRuns(Tail(key), TRUE)
    ELSE <<"_">> \o SubRuns(Tail(key), TRUE)

\* str.strip(chars)
RECURSIVE LStrip(_, _)
LStrip(str, chars) ==
    IF str # <<>> /\ Head(str) \in chars THEN LStrip(Tail(str), chars) ELSE str

RECURSIVE RStrip(_, _)
RStrip(str, chars) ==
    IF str # <<>> /\ str[Len(str)] \in chars
    THEN RStrip(SubSeq(str, 1, Len(str) - 1), chars)
    ELSE str

Strip(str, chars) == RStrip(LStrip(str, chars), chars)

generate_shortcut_key(name) ==
    LET key == Strip(SubRuns([i \in DOMAIN name |-> LowerChar(name[i])], FALSE), {"_"})
    IN  IF key = <<>> THEN <<"p", "r", "e", "s", "e", "t">> ELSE key

\* the display names submitted with a save
Names ==
    { <<"N", "o", "n", "e">>, <<"K", "1">>, <<" ", "n", "o", "n", "e", "!">>, <<" ">> }

(***************************************************************************)
(* Settings                                                                *)
(***************************************************************************)
\* load_user_settings: a category the file's settings lack gets the
\* preset "none"
load_user_settings(file_settings) ==
    [c \in Categories("audio") \cup Categories("video") |->
        IF c \in DOMAIN file_settings
        THEN file_settings[c]
        ELSE [preset |-> KeyNone, custom_values |-> EmptyMap]]

\* update_file_settings: only a category the settings already hold is
\* updated
update_file_settings(file_settings, category, preset) ==
    IF category \in DOMAIN file_settings
    THEN [file_settings EXCEPT ![category].preset = preset]
    ELSE file_settings

(***************************************************************************)
(* The resolution step of /process and /process-with-progress.             *)
(***************************************************************************)
\* presets.get(key) or presets["none"]: None stands for the KeyError
ResolveConfig(presets, key) ==
    IF key \in DOMAIN presets THEN Some(presets[key])
    ELSE IF KeyNone \in DOMAIN presets THEN Some(presets[KeyNone])
    ELSE None

\* one line of the value extraction, with custom values ignored
EffectiveValue_PresetOnly(cs, config, field) == config[field]

\* custom_values.get(field, config.field) if custom_values else config.field
EffectiveValue(cs, config, field) ==
    IF cs.custom_values # EmptyMap
    THEN Get(cs.custom_values, field, config[field])
    ELSE config[field]

\* get_audio_presets(category) / get_video_presets(category) on a loaded map
CategoryPresets(presets, m, c) == Get(Get(presets, m, EmptyMap), c, EmptyMap)

\* the config one category resolves to, None for the KeyError
Resolved(presets, us, mc) ==
    ResolveConfig(CategoryPresets(presets, mc[1], mc[2]), us[mc[2]].preset)

Resolution(presets, us) ==
    IF \E mc \in AllPresetCategories : Resolved(presets, us, mc) = None
    THEN Outcome("process", "KeyError")
    ELSE [Outcome("process", "") EXCEPT
            !.config = [mc \in AllPresetCategories |-> Resolved(presets, us, mc)[1]],
            !.values = [mc \in AllPresetCategories |->
                          [f \in CONFIG_CLASSES[mc[1]][mc[2]] |->
                             EffectiveValue(us[mc[2]], Resolved(presets, us, mc)[1], f)]]]

\* POST /process up to the extracted filter values: get_presets() loads
\* the presets when the cache is empty
Process ==
    \E r \in { IF presets_cache = EmptyMap
                THEN load_presets(sys_file, user_file)
                ELSE [err |-> "", presets |-> presets_cache] },
       us \in { load_user_settings(settings) } :
        /\ presets_cache' = IF r.err = "" THEN r.presets ELSE presets_cache
        /\ last' = IF r.err # "" THEN Outcome("process", r.err)
                   ELSE Resolution(r.presets, us)
        /\ UNCHANGED <<chainVars, execVars, streamVars, histVars, focus, sys_file, user_file, settings>>

NextPresets == LoadPresets \/ ReloadPresets \/ Process

\* preset loading and resolution, for every category
SpecPresets == InitPresets /\ [][NextPresets]_vars

(***************************************************************************)
(* The shortcut handlers of routers/audio.py with the user_shortcuts.py    *)
(* functions they call.                                                    *)
(***************************************************************************)
\* str.strip() leaves nothing
IsBlank(name) == Strip(name, {" "}) = <<>>

\* _load_raw_user_presets
load_raw_user_presets(file) == IF file.exists THEN file.data ELSE UserEmpty

\* raw_data after raw_data[filter_type][category][key] = entry, the two
\* outer mappings being created when absent
PutEntry(raw, m, c, key, entry) ==
    LET byType == Get(raw, m, EmptyMap)
    IN  Put(raw, m, Put(byType, c, Put(Get(byType, c, EmptyMap), key, entry)))

\* what reload_presets() followed by update_category_preset leaves behind
\* once the user file has been written as newFile
ReloadAndSelect(op, newFile, key) ==
    \E r \in {load_presets(sys_file, newFile)} :
        /\ user_file' = newFile
        /\ presets_cache' = IF r.err = "" THEN r.presets ELSE EmptyMap
        /\ settings' = IF r.err = ""
                       THEN update_file_settings(settings, focus[2], key)
                       ELSE settings
        /\ last' = [Outcome(op, r.err) EXCEPT
                      !.returned = IF r.err = "" THEN Some(key) ELSE None]

\* POST /shortcuts/save
SaveShortcut ==
    \E name \in Names, given \in BOOLEAN :
        LET m == focus[1]
            c == focus[2]
            preset_key == generate_shortcut_key(name)
            preset_data == RawEntry(IF given THEN UserParams[c] ELSE EmptyMap)
            validated == Validate(CONFIG_CLASSES[m][c], preset_data)
        IN  /\ IF IsBlank(name)
               THEN /\ last' = Outcome("save_shortcut", "HTTP400")
                    /\ UNCHANGED <<user_file, presets_cache, settings>>
               ELSE IF validated.err # ""
               THEN /\ last' = Outcome("save_shortcut", "HTTP500")
                    /\ UNCHANGED <<user_file, presets_cache, settings>>
               ELSE ReloadAndSelect("save_shortcut",
                        File(PutEntry(load_raw_user_presets(user_file), m, c,
                                      preset_key, ModelDump(validated.config))),
                        preset_key)
            /\ UNCHANGED <<chainVars, execVars, streamVars, histVars, focus, sys_file>>

\* DELETE /shortcuts/{filter_type}/{category}/{shortcut_key}
DeleteShortcut ==
    \E preset_key \in {KeyNone, KeyK1, KeyMine, KeyBad} :
        LET m == focus[1]
            c == focus[2]
            raw == load_raw_user_presets(user_file)
        IN  /\ IF preset_key \in DOMAIN Get(Get(raw, m, EmptyMap), c, EmptyMap)
               THEN ReloadAndSelect("delete_shortcut",
                        File([raw EXCEPT ![m][c] = Del(@, preset_key)]), KeyNone)
               ELSE /\ last' = Outcome("delete_shortcut", "HTTP404")
                    /\ UNCHANGED <<user_file, presets_cache, settings>>
            /\ UNCHANGED <<chainVars, execVars, streamVars, histVars, focus, sys_file>>

\* the uploads of an import: a shortcut named "none"; a valid shortcut next
\* to one that fails validation
ImportFiles(m, c) ==
    { WithCategory(UserEmpty, m, c, KeyNone :> RawEntry(UserParams[c])),
      WithCategory(UserEmpty, m, c,
          KeyK1 :> RawEntry(UserParams[c]) @@ KeyMine :> RawIncomplete) }

\* import_shortcuts: the user file it writes
ImportedData(existing, import_data) ==
    [m \in DOMAIN existing \cup (MediaTypes \cap DOMAIN import_data) |->
        IF m \notin DOMAIN import_data THEN existing[m]
        ELSE LET old == Get(existing, m, EmptyMap)
                 cats == Categories(m) \cap DOMAIN import_data[m]
             IN  [c \in DOMAIN old \cup cats |->
                    IF c \notin cats THEN old[c]
                    ELSE LET valid == ValidEntries(CONFIG_CLASSES[m][c], import_data[m][c])
                         IN  Update(Get(old, c, EmptyMap),
                                    [k \in DOMAIN valid |-> ModelDump(valid[k])])]]

\* import_shortcuts: result["errors"] is not empty
ImportHasErrors(import_data) ==
    \/ EntryErrors(import_data) # {}
    \/ \E m \in MediaTypes \cap DOMAIN import_data :
           DOMAIN import_data[m] \ Categories(m) # {}

\* POST /shortcuts/import: the presets are reloaded only when the import
\* reported no error
ImportShortcuts ==
    \E import_data \in ImportFiles(focus[1], focus[2]), merge \in BOOLEAN :
        \E newFile \in { File(ImportedData(IF merge THEN load_raw_user_presets(user_file)
                                                     ELSE UserEmpty, import_data)) } :
            /\ user_file' = newFile
            /\ IF ImportHasErrors(import_data)
               THEN /\ last' = Outcome("import_shortcuts", "errors")
                    /\ UNCHANGED presets_cache
               ELSE \E r \in {load_presets(sys_file, newFile)} :
                      /\ last' = Outcome("import_shortcuts", r.err)
                      /\ presets_cache' = IF r.err = "" THEN r.presets ELSE EmptyMap
            /\ UNCHANGED <<chainVars, execVars, streamVars, histVars, focus, sys_file, settings>>

\* the categories whose shortcuts are saved, deleted and imported
ShortcutFocus == { <<"audio", "volume">>, <<"video", "transform">> }

InitShortcuts ==
    /\ ChainIdle
    /\ ExecIdle
    /\ StreamIdle
    /\ HistIdle
    /\ focus \in ShortcutFocus
    /\ sys_file \in SystemFiles(focus[1], focus[2])
    /\ user_file \in UserFiles(focus[1], focus[2])
    /\ presets_cache = EmptyMap
    /\ settings \in { EmptyMap,
                      focus[2] :> [preset |-> KeyK1, custom_values |-> EmptyMap] }
    /\ last = Outcome("start", "")

NextShortcuts ==
    \/ ReloadPresets
    \/ Process
    \/ SaveShortcut
    \/ DeleteShortcut
    \/ ImportShortcuts

SpecShortcuts == InitShortcuts /\ [][NextShortcuts]_vars

(***************************************************************************)
(* Properties of the preset store                                          *)
(***************************************************************************)
AllCategoryNames == Categories("audio") \cup Categories("video")

\* the preset key and custom values /process reads for a category
CategorySetting(c) == load_user_settings(settings)[c]

Processed == last.op = "process"

\* the presets were loaded before or by the last /process
ProcessedOnLoadedPresets == Processed /\ presets_cache # EmptyMap

\* C4: in the process endpoints, for every audio and video category, when
\* the preset key stored in the settings is not a key of the merged preset
\* map of that category, resolution yields that category's "none" preset
\* and does not fail.
C4_UnknownKeyFallsBackToNone ==
    ProcessedOnLoadedPresets =>
        \A mc \in AllPresetCategories :
            LET presets == CategoryPresets(presets_cache, mc[1], mc[2])
            IN  CategorySetting(mc[2]).preset \notin DOMAIN presets =>
                    /\ last.err = ""
                    /\ KeyNone \in DOMAIN presets
                    /\ last.config[mc] = presets[KeyNone]

\* every entry of the system file is a valid mapping and every category
\* has its "none" entry with the neutral parameters
SystemFileWellFormed ==
    /\ sys_file.exists
    /\ EntryErrors(sys_file.data) = {}
    /\ \A mc \in AllPresetCategories :
          /\ mc[2] \in DOMAIN sys_file.data[mc[1]]
          /\ KeyNone \in DOMAIN sys_file.data[mc[1]][mc[2]]
          /\ sys_file.data[mc[1]][mc[2]][KeyNone] = RawEntry(NeutralParams[mc[2]])

\* C5: after any sequence of load, save, delete, import and reload
\* operations, every category of the loaded preset map has the key "none"
\* and that key resolves to the identity parameters of the category - here
\* even granted a well-formed system file.
C5_NoneIsAlwaysNeutral ==
    (SystemFileWellFormed /\ presets_cache # EmptyMap) =>
        \A mc \in AllPresetCategories :
            LET presets == CategoryPresets(presets_cache, mc[1], mc[2])
            IN  /\ KeyNone \in DOMAIN presets
                /\ presets[KeyNone] = NeutralParams[mc[2]]

\* C6: when the custom_values of a category are not empty, the effective
\* value of each field they hold is the custom value; the effective value
\* of every other field, and of every field when they are empty, is the
\* value of the resolved preset.
C6_CustomValuesOverrideFieldwise ==
    (Processed /\ last.err = "") =>
        \A mc \in AllPresetCategories :
            LET cs == CategorySetting(mc[2])
                presets == CategoryPresets(presets_cache, mc[1], mc[2])
            IN  /\ cs.preset \in DOMAIN presets => last.config[mc] = presets[cs.preset]
                /\ \A f \in CONFIG_CLASSES[mc[1]][mc[2]] :
                      IF f \in DOMAIN cs.custom_values
                      THEN last.values[mc][f] = cs.custom_values[f]
                      ELSE last.values[mc][f] = last.config[mc][f]

\* C6 happens: one field of the category comes from the custom values and
\* differs from the preset, another comes from the preset
C6_Witness ==
    /\ Processed /\ last.err = ""
    /\ \E mc \in AllPresetCategories :
          LET cs == CategorySetting(mc[2])
          IN  \E f, g \in CONFIG_CLASSES[mc[1]][mc[2]] :
                /\ f \in DOMAIN cs.custom_values
                /\ g \notin DOMAIN cs.custom_values
                /\ last.values[mc][f] = cs.custom_values[f]
                /\ last.values[mc][f] # last.config[mc][f]
                /\ last.values[mc][g] = last.config[mc][g]

LoadedLast == last.op \in {"load_presets", "reload_presets", "process"}

SystemEntryFailsValidation ==
    sys_file.exists /\ "ValidationError" \in EntryErrors(sys_file.data)

\* C7: if any system preset entry fails validation, load_presets aborts
\* with the validation error, returns no partial map and installs no
\* partially loaded map in the process-wide cache.
C7_InvalidSystemEntryAborts ==
    SystemEntryFailsValidation =>
        /\ presets_cache = EmptyMap
        /\ LoadedLast => (last.err = "ValidationError" /\ last.returned = None)

\* C7 happens: load_presets was called on a system file that holds valid
\* entries next to the invalid one
C7_Witness ==
    /\ SystemEntryFailsValidation
    /\ last.op = "load_presets"
    /\ last.err = "ValidationError"
    /\ \E mc \in AllPresetCategories :
          /\ mc[2] \in DOMAIN sys_file.data[mc[1]]
          /\ DOMAIN ValidEntries(CONFIG_CLASSES[mc[1]][mc[2]],
                                 sys_file.data[mc[1]][mc[2]]) # {}

\* the entries of a preset file for a category, none when the file or the
\* category is absent
FileEntries(file, m, c) ==
    IF file.exists THEN Get(Get(file.data, m, EmptyMap), c, EmptyMap) ELSE EmptyMap

\* the valid presets a file holds for a category
ValidFileEntries(file, m, c) == ValidEntries(CONFIG_CLASSES[m][c], FileEntries(file, m, c))

LoadReturned == last.op \in {"load_presets", "reload_presets"} /\ last.err = ""

\* C8: loading the user presets omits only the entries that fail
\* validation: the valid ones are merged, and no invalid or malformed user
\* entry aborts the load of the system presets.
C8_ValidUserEntriesStillMerged ==
    /\ (last.op \in {"load_presets", "reload_presets"} /\ SystemError(sys_file) = "")
          => last.err = ""
    /\ LoadReturned =>
          \A mc \in AllPresetCategories :
              LET valid == ValidFileEntries(user_file, mc[1], mc[2])
                  merged == CategoryPresets(presets_cache, mc[1], mc[2])
              IN  \A k \in DOMAIN valid : k \in DOMAIN merged /\ merged[k] = valid[k]

\* C9: after load_presets, a key of both the system presets and the valid
\* user presets holds the user entry, and a key of only one of them is
\* kept with its entry.
C9_UserEntryWinsOnMerge ==
    LoadReturned =>
        \A mc \in AllPresetCategories :
            LET user == ValidFileEntries(user_file, mc[1], mc[2])
                system == ValidFileEntries(sys_file, mc[1], mc[2])
                merged == CategoryPresets(presets_cache, mc[1], mc[2])
            IN  /\ DOMAIN merged = DOMAIN user \cup DOMAIN system
                /\ \A k \in DOMAIN merged :
                      merged[k] = IF k \in DOMAIN user THEN user[k] ELSE system[k]

(***************************************************************************)
(* The FFmpeg subprocess wrappers: ffmpeg_executor.py and the direct       *)
(* subprocess.run of processor.py.  The captured stderr is a sequence of   *)
(* lines; a message is the sequence of the parts of its f-string.          *)
(***************************************************************************)
MaxStderrLen == 3

StderrLines == {"warning", "error"}

RECURSIVE SeqsUpTo(_, _)
SeqsUpTo(S, n) ==
    IF n = 0 THEN {<<>>}
    ELSE SeqsUpTo(S, n - 1)
         \cup { Append(q, x) : q \in { t \in SeqsUpTo(S, n - 1) : Len(t) = n - 1 }, x \in S }

\* returncode of subprocess.run: the exit status, negative when the
\* process was killed by a signal
ReturnCodes == {0, 1, 255, -9}

\* seconds the external process runs for
Durations == {5, 20, 60}

\* the timeout argument: None, the ffprobe default, config preview_timeout
Timeouts == {None, Some(10), Some(30)}

ExecCalls ==
    { [fn |-> "run_ffmpeg_command", description |-> "FFmpeg operation", timeout |-> t] :
        t \in Timeouts }
    \cup { [fn |-> "run_ffprobe_command", description |-> "FFprobe operation", timeout |-> t] :
        t \in Timeouts \ {None} }
    \cup { [fn |-> "process_video_with_effects", description |-> "", timeout |-> None] }

ExecProcs ==
    { [returncode |-> rc, stderr |-> err, duration |-> d] :
        rc \in ReturnCodes, err \in SeqsUpTo(StderrLines, MaxStderrLen), d \in Durations }

\* subprocess.run, were the timeout argument not passed on
TimeoutExpired_Never(timeout, proc) == FALSE

\* subprocess.run(..., timeout=timeout) raises TimeoutExpired
TimeoutExpired(timeout, proc) == timeout # None /\ proc.duration > timeout[1]

Returned(proc) ==
    [kind |-> "returned", type |-> "", message |-> <<>>, stderr |-> proc.stderr,
     returncode |-> Some(proc.returncode)]

Raised(type, message, stderr) ==
    [kind |-> "raised", type |-> type, message |-> message, stderr |-> stderr,
     returncode |-> None]

\* the exit test, were only a death by signal a failure
ExitFailed_OnlyNegative(returncode) == returncode < 0

\* result.returncode != 0
ExitFailed(returncode) == returncode # 0

\* run_ffmpeg_command and run_ffprobe_command
run_command(description, timeout, proc) ==
    IF TimeoutExpired(timeout, proc)
    THEN Raised("FFmpegError", <<description, " timed out after ", timeout[1], "s">>, <<>>)
    ELSE IF ExitFailed(proc.returncode)
    THEN Raised("FFmpegError", <<description, " failed">>, proc.stderr)
    ELSE Returned(proc)

InitExec ==
    /\ ChainIdle
    /\ PresetsIdle
    /\ StreamIdle
    /\ HistIdle
    /\ exec_call \in ExecCalls
    /\ exec_proc \in ExecProcs
    /\ exec_result = None

RunFfmpegCommand ==
    /\ exec_call.fn = "run_ffmpeg_command"
    /\ exec_result = None
    /\ exec_result' = Some(run_command(exec_call.description, exec_call.timeout, exec_proc))
    /\ UNCHANGED <<chainVars, presetVars, streamVars, histVars, exec_call, exec_proc>>

RunFfprobeCommand ==
    /\ exec_call.fn = "run_ffprobe_command"
    /\ exec_result = None
    /\ exec_result' = Some(run_command(exec_call.description, exec_call.timeout, exec_proc))
    /\ UNCHANGED <<chainVars, presetVars, streamVars, histVars, exec_call, exec_proc>>

\* the subprocess.run at the end of process_video_with_effects: no
\* timeout, a RuntimeError whose message holds the stderr
ProcessVideoWithEffects ==
    /\ exec_call.fn = "process_video_with_effects"
    /\ exec_result = None
    /\ exec_result' =
          Some(IF ExitFailed(exec_proc.returncode)
               THEN Raised("RuntimeError", <<"ffmpeg failed: ">> \o exec_proc.stderr, <<>>)
               ELSE Returned(exec_proc))
    /\ UNCHANGED <<chainVars, presetVars, streamVars, histVars, exec_call, exec_proc>>

NextExec == RunFfmpegCommand \/ RunFfprobeCommand \/ ProcessVideoWithEffects

SpecExec == InitExec /\ [][NextExec]_vars

(***************************************************************************)
(* Properties of the subprocess wrappers                                   *)
(***************************************************************************)
FfmpegCommandDone ==
    /\ exec_result # None
    /\ exec_call.fn = "run_ffmpeg_command"

\* the process ended by itself, with a non-zero exit
FailedExit ==
    /\ ~TimeoutExpired(exec_call.timeout, exec_proc)
    /\ exec_proc.returncode # 0

ReturnsOnlyOnExitZero ==
    exec_result[1].kind = "returned" =>
        /\ exec_proc.returncode = 0
        /\ ~TimeoutExpired(exec_call.timeout, exec_proc)

IsPrefix(p, q) == Len(p) <= Len(q) /\ p = SubSeq(q, 1, Len(p))

RanPastTimeout ==
    /\ exec_call.timeout # None
    /\ exec_proc.duration > exec_call.timeout[1]

\* the type of the error run_ffmpeg_command raises for a non-zero exit
ExitErrorType ==
    run_command("FFmpeg operation", None,
                [returncode |-> 1, stderr |-> <<>>, duration |-> 5]).type

\* C11: when the external process exceeds the timeout, run_ffmpeg_command
\* raises an FFmpegError, the type it also raises for a non-zero exit; the
\* error says "<description> timed out after <timeout>s" and carries an
\* empty stderr.
C11_TimeoutRaisesFFmpegError ==
    (FfmpegCommandDone /\ RanPastTimeout) =>
        /\ exec_result[1].kind = "raised"
        /\ exec_result[1].type = "FFmpegError"
        /\ exec_result[1].type = ExitErrorType
        /\ exec_result[1].message =
              <<exec_call.description, " timed out after ", exec_call.timeout[1], "s">>
        /\ exec_result[1].stderr = <<>>

\* C11 happens: a process that would have exited non-zero after writing
\* to stderr ran past the timeout
C11_Witness ==
    /\ FfmpegCommandDone
    /\ RanPastTimeout
    /\ exec_proc.returncode # 0
    /\ exec_proc.stderr # <<>>
    /\ exec_result[1].kind = "raised"

\* C11 as stated: the error raised on a timeout differs in type from the
\* error raised for a non-zero exit.
C11_TimeoutErrorDistinctByType ==
    (FfmpegCommandDone /\ RanPastTimeout) =>
        /\ exec_result[1].kind = "raised"
        /\ exec_result[1].type # ExitErrorType

(***************************************************************************)
(* /process-with-progress: the trim bounds, the progress stream of the     *)
(* processor and the SSE events of event_generator.                        *)
(***************************************************************************)

\* str.split(sep), on a string given as its characters
RECURSIVE SplitChars(_, _)
SplitChars(s, sep) ==
    IF \A i \in DOMAIN s : s[i] # sep
    THEN <<s>>
    ELSE LET i == CHOOSE k \in DOMAIN s :
                      s[k] = sep /\ \A j \in 1..(k - 1) : s[j] # sep
         IN  <<SubSeq(s, 1, i - 1)>> \o SplitChars(SubSeq(s, i + 1, Len(s)), sep)

DigitValue(ch) == (CHOOSE i \in DOMAIN DigitChars : DigitChars[i] = ch) - 1

\* int(s) raises ValueError unless s is a run of decimal digits (the
\* whitespace, sign and underscores int() also accepts are not among the
\* characters of the modelled inputs)
IsInt(s) == s # <<>> /\ \A i \in DOMAIN s : s[i] \in Range(DigitChars)

RECURSIVE IntOf(_)
IntOf(s) ==
    IF s = <<>> THEN 0
    ELSE 10 * IntOf(SubSeq(s, 1, Len(s) - 1)) + DigitValue(s[Len(s)])

\* _parse_time_to_ms: [err, ms]
parse_time_to_ms(time_str) ==
    LET parts == SplitChars(time_str, ":")
    IN  IF Len(parts) # 3 THEN [err |-> "", ms |-> 0]
        ELSE LET seconds_parts == SplitChars(parts[3], ".")
                 ints == <<parts[1], parts[2], seconds_parts[1]>>
                         \o (IF Len(seconds_parts) > 1 THEN <<seconds_parts[2]>> ELSE <<>>)
             IN  IF \E i \in DOMAIN ints : ~IsInt(ints[i])
                 THEN [err |-> "ValueError", ms |-> 0]
                 ELSE [err |-> "",
                       ms |-> (IntOf(parts[1]) * 3600 + IntOf(parts[2]) * 60
                               + IntOf(seconds_parts[1])) * 1000
                              + (IF Len(seconds_parts) > 1 THEN IntOf(seconds_parts[2]) ELSE 0)]

\* one update of the processor
StreamUpdate(type, percent, output_file) ==
    [type |-> type, percent |-> percent, output_file |-> output_file]

Hundred == <<100, 1>>

\* percent of a progress update: min(100, position / total_duration), in
\* percent; total # 0
Percent(position, total) ==
    LET p == IF total > 0 THEN R(position * 100, total)
                          ELSE R(-(position * 100), -total)
    IN  IF RLt(Hundred, p) THEN Hundred ELSE p

StreamResult(events, raised) == [events |-> events, raised |-> raised]

\* the end of the stream: "complete" with the output path on exit code 0,
\* "error" on any other exit code
StreamExit(run) ==
    IF run.returncode = 0
    THEN StreamResult(<<StreamUpdate("complete", None, Some("output.mp4"))>>, FALSE)
    ELSE StreamResult(<<StreamUpdate("error", None, None)>>, FALSE)

\* an exception while streaming: the process is killed, an "error" update
\* is emitted and the exception is raised again
StreamFault == StreamResult(<<StreamUpdate("error", None, None)>>, TRUE)

\* the updates from stdout line i on: "out_time_ms=<int>" gives a progress
\* update, "progress=end" ends the reading, a malformed progress line is
\* ignored and any other line is a log update
RECURSIVE StreamFrom(_, _, _)
StreamFrom(total, run, i) ==
    IF run.fault = i THEN StreamFault
    ELSE IF i > Len(run.lines) THEN StreamExit(run)
    ELSE LET line == run.lines[i]
             rest == StreamFrom(total, run, i + 1)
         IN  CASE line.kind = "end" -> StreamExit(run)
               [] line.kind = "out_time_ms" ->
                    IF total = 0 THEN StreamFault
                    ELSE StreamResult(<<StreamUpdate("progress", Some(Percent(line.pos, total)), None)>>
                                      \o rest.events, rest.raised)
               [] line.kind = "log" ->
                    StreamResult(<<StreamUpdate("log", None, None)>> \o rest.events, rest.raised)
               [] OTHER -> rest

process_video_with_progress(total_duration_ms, run) ==
    StreamFrom(total_duration_ms, run, 1)

\* the keyword arguments history.add_history_entry passes on, and the
\* parameters file_metadata.add_history_entry takes
AddMetadataHistoryKwargs ==
    {"filename", "entry_id", "output_file", "start_time", "end_time", "volume",
     "highpass", "lowpass", "delays", "decays",
     "volume_preset", "tunnel_preset", "frequency_preset"}

AddMetadataHistoryParams ==
    {"filename", "entry_id", "output_file", "start_time", "end_time", "volume",
     "highpass", "lowpass", "delays", "decays"}

\* the call raises TypeError on an unexpected keyword argument
AddHistoryRaises == ~(AddMetadataHistoryKwargs \subseteq AddMetadataHistoryParams)

SseEvent(update) == [event |-> update.type, data |-> update]

SseError == [event |-> "error", data |-> StreamUpdate("error", None, None)]

\* the output_file local of event_generator after the loop
OutputFileOf(updates) ==
    LET done == { i \in DOMAIN updates : updates[i].type = "complete" }
    IN  IF done = {} THEN None
        ELSE updates[CHOOSE i \in done : \A j \in done : j <= i].output_file

\* event_generator: every update is forwarded, the history entry is added
\* once the loop is over and a file was output; any exception of the try
\* block is answered with one more error event
event_generator(total_duration_ms, run) ==
    LET p == process_video_with_progress(total_duration_ms, run)
        forwarded == [i \in DOMAIN p.events |-> SseEvent(p.events[i])]
        history == ~p.raised /\ OutputFileOf(p.events) # None
        caught == p.raised \/ (history /\ AddHistoryRaises)
    IN  [events |-> forwarded \o (IF caught THEN <<SseError>> ELSE <<>>),
         history_called |-> history,
         history_added |-> history /\ ~AddHistoryRaises]

TimeStrings ==
    { <<"0","0",":","0","0",":","0","0">>,
      <<"0","0",":","0","0",":","0","5">>,
      <<"0","0",":","0","0",":","1","0">>,
      <<"0","0",":","0","0",":","0","2",".","5","0","0">>,
      <<"0","0",":","0","5">>,
      <<"0","0",":","0","0",":">> }

\* the trim bounds of a request
TrimRanges ==
    { [start_time |-> a, end_time |-> b] :
        a \in { <<"0","0",":","0","0",":","0","0">>,
                <<"0","0",":","0","0",":","0","5">>,
                <<"0","0",":","0","0",":">> },
        b \in TimeStrings }

MaxLines == 2

Positions == {2000, 4000, 6000}

StdoutLines ==
    { [kind |-> "out_time_ms", pos |-> n] : n \in Positions }
    \cup { [kind |-> k, pos |-> 0] : k \in {"malformed", "log", "end"} }

StreamRuns ==
    { [lines |-> l, returncode |-> rc, fault |-> f] :
        l \in SeqsUpTo(StdoutLines, MaxLines), rc \in {0, 1}, f \in 0..(MaxLines + 1) }

\* the request is answered: a ValueError of the trim bounds before any
\* event, or else the event stream
StreamOutcome(err, total, gen) ==
    [err |-> err, total_duration_ms |-> total, events |-> gen.events,
     history_called |-> gen.history_called, history_added |-> gen.history_added]

NoStream == [events |-> <<>>, history_called |-> FALSE, history_added |-> FALSE]

InitStream ==
    /\ ChainIdle
    /\ PresetsIdle
    /\ ExecIdle
    /\ HistIdle
    /\ stream_call \in TrimRanges
    /\ stream_run \in { r \in StreamRuns : r.fault <= Len(r.lines) + 1 }
    /\ stream_result = None

\* process_with_progress from the trim bounds on, with its event stream
\* read to the end
ProcessWithProgress ==
    /\ stream_result = None
    /\ LET start_ms == parse_time_to_ms(stream_call.start_time)
           end_ms == parse_time_to_ms(stream_call.end_time)
           total_duration_ms == end_ms.ms - start_ms.ms
       IN  stream_result' =
              Some(IF start_ms.err # "" \/ end_ms.err # ""
                   THEN StreamOutcome("ValueError", 0, NoStream)
                   ELSE StreamOutcome("", total_duration_ms,
                                      event_generator(total_duration_ms, stream_run)))
    /\ UNCHANGED <<chainVars, presetVars, execVars, histVars, stream_call, stream_run>>

NextStream == ProcessWithProgress

SpecStream == InitStream /\ [][NextStream]_vars

Streamed == stream_result # None /\ stream_result[1].err = ""

Terminal(e) == e.event \in {"complete", "error"}

TerminalCount(events) == Cardinality({ i \in DOMAIN events : Terminal(events[i]) })

\* C12: the event stream of /process-with-progress holds exactly one
\* terminal event (complete or error) and nothing follows it, also when
\* the processor raises after its own error event and when recording the
\* history fails after complete.
C12_ExactlyOneTerminalEvent ==
    Streamed =>
        LET events == stream_result[1].events
        IN  /\ TerminalCount(events) = 1
            /\ Terminal(events[Len(events)])

\* the percent_complete values of the progress events, in stream order
RECURSIVE ProgressPercents(_)
ProgressPercents(events) ==
    IF events = <<>> THEN <<>>
    ELSE (IF events[1].event = "progress" THEN <<events[1].data.percent[1]>> ELSE <<>>)
         \o ProgressPercents(Tail(events))

Key2x == <<"2", "x">>
KeyFlat == <<"f", "l", "a", "t">>

\* get_default_settings: the settings of a file without metadata and of a
\* newly downloaded file
get_default_settings ==
    [c \in {"volume", "tunnel", "frequency"} |->
        [preset |-> CASE c = "volume" -> Key2x
                      [] c = "tunnel" -> KeyNone
                      [] OTHER -> KeyFlat,
         custom_values |-> EmptyMap]]

\* UserSettings(): the defaults of the model class
UserSettingsDefault ==
    [c \in Categories("audio") \cup Categories("video") |->
        [preset |-> IF c = "frequency" THEN KeyFlat ELSE KeyNone,
         custom_values |-> EmptyMap]]

\* a settings mapping that holds every category, as a hand-written
\* metadata file may
FullSettings ==
    [c \in Categories("audio") \cup Categories("video") |->
        [preset |-> KeyNone, custom_values |-> EmptyMap]]

Filenames == {"", "clip.mp4"}

\* settings.update_category_preset: [settings, returned]
update_category_preset(file_settings, category, preset, filename) ==
    IF filename = ""
    THEN [settings |-> file_settings,
          returned |-> IF category \in DOMAIN UserSettingsDefault
                       THEN [UserSettingsDefault EXCEPT ![category].preset = preset]
                       ELSE UserSettingsDefault]
    ELSE LET updated == update_file_settings(file_settings, category, preset)
         IN  [settings |-> updated, returned |-> load_user_settings(updated)]

InitSettings ==
    /\ ChainIdle
    /\ ExecIdle
    /\ StreamIdle
    /\ HistIdle
    /\ focus \in AllPresetCategories
    /\ sys_file = <<>>
    /\ user_file = <<>>
    /\ presets_cache = <<>>
    /\ settings \in {get_default_settings, FullSettings}
    /\ last = [op |-> "start"]

\* a call of update_category_preset for the category in focus
UpdateCategoryPreset ==
    \E preset \in {KeyNone, KeyK1, KeyMine}, filename \in Filenames :
        \E r \in {update_category_preset(settings, focus[2], preset, filename)} :
            /\ settings' = r.settings
            /\ last' = [op |-> "update_category_preset", category |-> focus[2],
                        preset |-> preset, filename |-> filename,
                        before |-> settings, returned |-> r.returned]
            /\ UNCHANGED <<chainVars, execVars, streamVars, histVars,
                           focus, sys_file, user_file, presets_cache>>

NextSettings == UpdateCategoryPreset

SpecSettings == InitSettings /\ [][NextSettings]_vars

UpdatedWithFile == last.op = "update_category_preset" /\ last.filename # ""

\* C14: after update_category_preset(category, preset, filename) the
\* settings loaded for the file report that preset for that category and
\* every other category as before, for every audio and video category.
C14_UpdateSetsOnlyThatCategory ==
    UpdatedWithFile =>
        /\ load_user_settings(settings)[last.category].preset = last.preset
        /\ last.returned[last.category].preset = last.preset
        /\ \A c \in AllCategoryNames \ {last.category} :
              load_user_settings(settings)[c] = load_user_settings(last.before)[c]

(***************************************************************************)
(* The per-file history of file_metadata.py and the aggregated read of     *)
(* history.py.  An entry is [id, timestamp, input_file]; the metadata      *)
(* files are writable.                                                     *)
(***************************************************************************)
HistoryLimit == 50

HistoryFiles == {"a.mp4", "b.mp4"}

\* the values datetime.now() may return; the wall clock may stand still
\* or step back between two calls
Timestamps == 1..3

HistoryEntry(id, timestamp, input_file) ==
    [id |-> id, timestamp |-> timestamp, input_file |-> input_file]

\* history[:n]
Truncate(history, n) == SubSeq(history, 1, IF Len(history) < n THEN Len(history) ELSE n)

\* the insertion, were the list never cut
add_history_entry_NoLimit(history, entry) == <<entry>> \o history

\* file_metadata.add_history_entry on the history list of the file
add_history_entry(history, entry) == Truncate(<<entry>> \o history, HistoryLimit)

\* file_metadata.delete_history_entry: [found, history]; the first entry
\* with the id is popped
delete_history_entry(history, entry_id) ==
    LET hits == { i \in DOMAIN history : history[i].id = entry_id }
    IN  IF hits = {} THEN [found |-> FALSE, history |-> history]
        ELSE LET i == CHOOSE k \in hits : \A j \in hits : k <= j
             IN  [found |-> TRUE,
                  history |-> SubSeq(history, 1, i - 1) \o SubSeq(history, i + 1, Len(history))]

\* list.sort(key=timestamp, reverse=True): stable, by descending timestamp
RECURSIVE SortByTimestampDesc(_, _)
SortByTimestampDesc(entries, t) ==
    IF t < 1 THEN <<>>
    ELSE SelectSeq(entries, LAMBDA e : e.timestamp = t)
         \o SortByTimestampDesc(entries, t - 1)

RECURSIVE Concat(_)
Concat(seqs) == IF seqs = <<>> THEN <<>> ELSE seqs[1] \o Concat(Tail(seqs))

\* history.load_history() over the metadata files in the order the glob
\* lists them
load_history(store, glob_order) ==
    LET all_entries == Concat([i \in DOMAIN glob_order |-> store[glob_order[i]]])
    IN  Truncate(SortByTimestampDesc(all_entries, 3), HistoryLimit)

\* a history list as n earlier additions left it, newest first
Prefilled(file, base, n) ==
    [i \in 1..n |-> HistoryEntry(base + n - i + 1,
                                 IF 2 * (n - i + 1) > n THEN 2 ELSE 1, file)]

MaxAdds == 2

MaxDeletes == 1

FirstNewId == 200

InitHistory ==
    /\ ChainIdle
    /\ PresetsIdle
    /\ ExecIdle
    /\ StreamIdle
    /\ \E na \in {0, HistoryLimit - 1, HistoryLimit}, nb \in {0, 2} :
          hist_store = [f \in HistoryFiles |->
                          IF f = "a.mp4" THEN Prefilled(f, 0, na)
                                         ELSE Prefilled(f, 100, nb)]
    /\ hist_clock = [now |-> 2, drawn |-> 0, deleted |-> 0]
    /\ hist_last = [op |-> "start"]

\* file_metadata.add_history_entry(filename, entry_id, ...)
AddHistoryEntry ==
    /\ hist_clock.drawn < MaxAdds
    /\ \E f \in HistoryFiles, now \in Timestamps :
          LET entry == HistoryEntry(FirstNewId + hist_clock.drawn, now, f)
          IN  /\ hist_store' = [hist_store EXCEPT ![f] = add_history_entry(@, entry)]
              /\ hist_clock' = [hist_clock EXCEPT !.now = now, !.drawn = @ + 1]
              /\ hist_last' = [op |-> "add", file |-> f, entry |-> entry,
                               before |-> hist_store[f]]
    /\ UNCHANGED <<chainVars, presetVars, execVars, streamVars>>

\* the ids a delete request may name: the newest and the oldest entry of
\* the file, and an id no entry has
DeleteTargets(history) ==
    {0} \cup (IF history = <<>> THEN {} ELSE {history[1].id, history[Len(history)].id})

\* file_metadata.delete_history_entry(filename, entry_id)
DeleteHistoryEntry ==
    /\ hist_clock.deleted < MaxDeletes
    /\ hist_clock' = [hist_clock EXCEPT !.deleted = @ + 1]
    /\ \E f \in HistoryFiles :
          \E entry_id \in DeleteTargets(hist_store[f]) :
              LET r == delete_history_entry(hist_store[f], entry_id)
              IN  /\ hist_store' = [hist_store EXCEPT ![f] = r.history]
                  /\ hist_last' = [op |-> "delete", file |-> f, id |-> entry_id,
                                   found |-> r.found, before |-> hist_store[f]]
    /\ UNCHANGED <<chainVars, presetVars, execVars, streamVars>>

\* history.load_history() without input_file
LoadHistory ==
    /\ \E glob_order \in { <<"a.mp4", "b.mp4">>, <<"b.mp4", "a.mp4">> } :
          hist_last' = [op |-> "load_history",
                        returned |-> load_history(hist_store, glob_order)]
    /\ UNCHANGED <<chainVars, presetVars, execVars, streamVars, hist_store, hist_clock>>

NextHistory == AddHistoryEntry \/ DeleteHistoryEntry \/ LoadHistory

SpecHistory == InitHistory /\ [][NextHistory]_vars

\* the list holds the entries in the order of their addition, the last
\* added first
NewestFirst(history) ==
    \A i \in 1..(Len(history) - 1) : history[i].id > history[i + 1].id

StoredEntries == UNION { Range(hist_store[f]) : f \in HistoryFiles }

\* the aggregated list is in descending timestamp order, holds stored
\* entries only, and no entry left out is more recent than one returned
MostRecentFirst(returned) ==
    /\ Len(returned) <= HistoryLimit
    /\ \A i \in 1..(Len(returned) - 1) : returned[i].timestamp >= returned[i + 1].timestamp
    /\ Range(returned) \subseteq StoredEntries
    /\ Cardinality(Range(returned)) = Len(returned)
    /\ Len(returned) < HistoryLimit => Range(returned) = StoredEntries
    /\ \A e \in StoredEntries \ Range(returned) :
          \A i \in DOMAIN returned : e.timestamp <= returned[i].timestamp

\* C15: after any additions and deletions a file's stored history holds
\* at most 50 entries, the last added first; an addition to a full list
\* drops the oldest entry; the aggregated read returns at most 50 entries,
\* the most recent ones, in descending timestamp order.
C15_HistoryBoundedNewestFirst ==
    /\ \A f \in HistoryFiles :
          /\ Len(hist_store[f]) <= HistoryLimit
          /\ NewestFirst(hist_store[f])
    /\ hist_last.op = "add" =>
          /\ hist_store[hist_last.file][1] = hist_last.entry
          /\ Len(hist_last.before) = HistoryLimit =>
                hist_store[hist_last.file]
                    = <<hist_last.entry>> \o SubSeq(hist_last.before, 1, HistoryLimit - 1)
          /\ Len(hist_last.before) < HistoryLimit =>
                hist_store[hist_last.file] = <<hist_last.entry>> \o hist_last.before
    /\ hist_last.op = "delete" =>
          Range(hist_store[hist_last.file])
              = { e \in Range(hist_last.before) : e.id # hist_last.id }
    /\ hist_last.op = "load_history" => MostRecentFirst(hist_last.returned)

\* an entry was added to a full list, and the aggregated read cut its result
C15_Witness ==
    /\ hist_last.op = "load_history"
    /\ Len(hist_last.returned) = HistoryLimit
    /\ Cardinality(StoredEntries) > HistoryLimit
    /\ \E f \in HistoryFiles :
          /\ Len(hist_store[f]) = HistoryLimit
          /\ hist_store[f][1].id >= FirstNewId

(***************************************************************************)
(* The requests of routers/audio.py that name an input file, a category    *)
(* or a preset key.                                                        *)
(***************************************************************************)
AUDIO_CATEGORIES ==
    {"volume", "tunnel", "frequency", "speed", "pitch", "noise_reduction", "compressor"}

VIDEO_CATEGORIES ==
    {"brightness", "contrast", "saturation", "blur", "sharpen", "transform",
     "crop", "colorshift", "overlay", "scale"}

ALL_CATEGORIES == AUDIO_CATEGORIES \cup VIDEO_CATEGORIES

\* the categories and preset keys the requests of a run name
RequestCategories == {"volume", "speed", "blur", "bogus"}

RequestPresetKeys == {KeyNone, KeyK1, KeyUnknown}

\* presets.yml with the presets the default settings name: "2x" for
\* volume and "flat" for frequency
RequestSystemData ==
    [SystemBaseline EXCEPT
        !["audio"]["volume"] = Put(@, Key2x, RawEntry(SystemParams["volume"])),
        !["audio"]["frequency"] = Put(@, KeyFlat, RawEntry(SystemParams["frequency"]))]

\* the presets the handlers see: the well-formed presets.yml, no user file
RequestPresets == load_presets(File(RequestSystemData), NoFile).presets

MediaOf(category) == IF category \in Categories("audio") THEN "audio" ELSE "video"

\* the key names a preset of the category
PresetKnown(presets, category, key) ==
    key \in DOMAIN CategoryPresets(presets, MediaOf(category), category)

Response(op, status, invoked) ==
    [op |-> op, status |-> status, invoked |-> invoked,
     missing_file |-> FALSE, unknown_category |-> FALSE, unknown_preset |-> FALSE]

InitRequests ==
    /\ ChainIdle
    /\ ExecIdle
    /\ StreamIdle
    /\ HistIdle
    /\ focus = <<>>
    /\ sys_file = File(RequestSystemData)
    /\ user_file = NoFile
    /\ presets_cache = RequestPresets
    /\ settings \in {get_default_settings, FullSettings}
    /\ last = Response("start", 200, FALSE)

\* POST /process: 404 for a missing input file; otherwise every category
\* is resolved with `presets.get(key) or presets["none"]` and the
\* processor is called
RequestProcess ==
    /\ \E exists \in BOOLEAN :
          LET us == load_user_settings(settings)
              unknown == \E c \in AllCategoryNames :
                            ~PresetKnown(presets_cache, c, us[c].preset)
          IN  last' = IF ~exists
                      THEN [Response("process", 404, FALSE) EXCEPT
                              !.missing_file = TRUE, !.unknown_preset = unknown]
                      ELSE [Response("process", 200, TRUE) EXCEPT
                              !.unknown_preset = unknown]
    /\ UNCHANGED <<chainVars, execVars, streamVars, histVars,
                   focus, sys_file, user_file, presets_cache, settings>>

\* POST /partials/category-preset/{category}/{preset}: no check at all
SetCategoryPreset ==
    /\ \E category \in RequestCategories, preset \in RequestPresetKeys,
          filename \in Filenames :
          \E r \in {update_category_preset(settings, category, preset, filename)} :
              /\ settings' = r.settings
              /\ last' = [Response("set_category_preset", 200, FALSE) EXCEPT
                            !.unknown_category = category \notin ALL_CATEGORIES,
                            !.unknown_preset =
                                ~PresetKnown(presets_cache, category, preset)]
    /\ UNCHANGED <<chainVars, execVars, streamVars, histVars,
                   focus, sys_file, user_file, presets_cache>>

\* POST /partials/accordion-preset/{category}/{preset}: 404 for a category
\* outside ALL_CATEGORIES, no check of the preset key
SetAccordionPreset ==
    /\ \E category \in RequestCategories, preset \in RequestPresetKeys,
          filename \in Filenames :
          IF category \notin ALL_CATEGORIES
          THEN /\ last' = [Response("set_accordion_preset", 404, FALSE) EXCEPT
                             !.unknown_category = TRUE,
                             !.unknown_preset =
                                 ~PresetKnown(presets_cache, category, preset)]
               /\ UNCHANGED settings
          ELSE \E r \in {update_category_preset(settings, category, preset, filename)} :
                  /\ settings' = r.settings
                  /\ last' = [Response("set_accordion_preset", 200, FALSE) EXCEPT
                                !.unknown_preset =
                                    ~PresetKnown(presets_cache, category, preset)]
    /\ UNCHANGED <<chainVars, execVars, streamVars, histVars,
                   focus, sys_file, user_file, presets_cache>>

NextRequests == RequestProcess \/ SetCategoryPreset \/ SetAccordionPreset

SpecRequests == InitRequests /\ [][NextRequests]_vars

\* C16: a request that names a missing input file, an unrecognized
\* category or an unrecognized preset key is answered with a client error
\* and no external process is invoked for it.
C16_InvalidInputIsClientError ==
    (last.missing_file \/ last.unknown_category \/ last.unknown_preset) =>
        /\ last.status >= 400
        /\ ~last.invoked

(***************************************************************************)
(* The FFmpeg command lines of processor.py.  An argument is a plain text  *)
(* or a filter string.                                                     *)
(***************************************************************************)
Arg(text) == [text |-> text, filter |-> <<>>]

FilterArg(filter) == [text |-> "", filter |-> filter]

Args(texts) == [i \in DOMAIN texts |-> Arg(texts[i])]

\* the test of the filter argument, were it `is not None`
FilterPresent_NotNone(filter) == Len(filter) > 0

\* `if audio_filter:` on a str | None: neither None nor ""
FilterPresent(filter) == Len(filter) > 0 /\ Len(filter[1]) > 0

\* cmd of process_video_with_effects
VideoEffectsCommand(audio_filter, video_filter, output_format) ==
    Args(<<"ffmpeg", "-y", "-i", "input", "-ss", "start", "-to", "end">>)
    \o (IF FilterPresent(audio_filter)
        THEN <<Arg("-af"), FilterArg(audio_filter[1])>> ELSE <<>>)
    \o (IF FilterPresent(video_filter)
        THEN <<Arg("-vf"), FilterArg(video_filter[1])>> ELSE <<>>)
    \o (CASE output_format = "mp4" ->
               Args(<<"-c:v", "libx264", "-preset", "fast", "-crf", "23",
                      "-c:a", "aac", "-b:a", "192k">>)
          [] output_format = "webm" ->
               Args(<<"-c:v", "libvpx-vp9", "-crf", "30", "-b:v", "0",
                      "-c:a", "libopus", "-b:a", "128k">>)
          [] OTHER -> <<>>)
    \o Args(<<"output">>)

RSub(a, b) == R(a[1] * b[2] - b[1] * a[2], a[2] * b[2])

RAbs(a) == <<Abs(a[1]), a[2]>>

\* is_muted and is_neutral of process_audio
IsMuted(p) == RLt(p.volume, R(1, 100))

IsNeutral(p) ==
    /\ RLt(RAbs(RSub(p.volume, One)), R(1, 100))
    /\ p.highpass <= 20
    /\ p.lowpass >= 20000
    /\ ~AnyPositive(p.decays)

\* audio_filter of process_audio when the settings are not neutral
TunnelFilter(p) ==
    << Tok("volume", <<p.volume>>), Comma, Tok("highpass", <<p.highpass>>), Comma,
       Tok("lowpass", <<p.lowpass>>) >>
    \o (IF AnyPositive(p.decays)
        THEN <<Comma, Tok("aecho", <<p.delays, p.decays>>)>> ELSE <<>>)

\* cmd of process_audio
AudioCommand(p) ==
    Args(<<"ffmpeg", "-y", "-i", "input", "-ss", "start", "-to", "end">>)
    \o (IF IsMuted(p)
        THEN Args(<<"-vn", "-af">>) \o <<FilterArg(<<Tok("volume", <<Zero>>)>>)>>
             \o Args(<<"-acodec", "libmp3lame", "-q:a", "4">>)
        ELSE IF IsNeutral(p)
        THEN Args(<<"-vn", "-acodec", "libmp3lame", "-q:a", "4">>)
        ELSE <<Arg("-af"), FilterArg(TunnelFilter(p)), Arg("-vn")>>)
    \o Args(<<"output">>)

\* the filter strings handed to process_video_with_effects: None, the
\* empty string, or what the chain builder returns for some parameters
AudioFilterArgs ==
    { [given |-> g, p |-> AudioDefaults] : g \in {"None", "empty"} }
    \cup { [given |-> "chain", p |-> a] :
             a \in { x \in AudioInputs :
                       /\ x.speed = One /\ x.pitch_semitones = 0
                       /\ x.highpass = 20 /\ x.lowpass = 20000 } }

VideoFilterArgs ==
    { [given |-> g, p |-> VideoDefaults] : g \in {"None", "empty"} }
    \cup { [given |-> "chain", p |-> v] :
             v \in { x \in VideoInputs :
                       /\ x.brightness = Zero /\ x.contrast = One
                       /\ x.saturation = One /\ x.speed # Two } }

AudioFilterOf(arg) ==
    CASE arg.given = "None" -> None
      [] arg.given = "empty" -> Some(<<>>)
      [] OTHER -> build_audio_filter_chain(arg.p)

VideoFilterOf(arg) ==
    CASE arg.given = "None" -> None
      [] arg.given = "empty" -> Some(<<>>)
      [] OTHER -> build_video_filter_chain(arg.p)

TunnelInputs ==
    { [volume |-> v, highpass |-> hp, lowpass |-> lp,
       delays |-> e.delays, decays |-> e.decays] :
        v \in {Zero, R(1, 200), R(199, 200), One, Two},
        hp \in {20, 100}, lp \in {20000, 4500}, e \in EchoInputs }

CommandCalls ==
    { [fn |-> "process_video_with_effects",
       args |-> [audio_filter |-> a, video_filter |-> v, output_format |-> f]] :
        a \in AudioFilterArgs, v \in VideoFilterArgs, f \in {"mp4", "webm", "mkv"} }
    \cup { [fn |-> "process_audio", args |-> p] : p \in TunnelInputs }

InitCommand ==
    /\ PresetsIdle
    /\ ExecIdle
    /\ StreamIdle
    /\ HistIdle
    /\ chain_call \in CommandCalls
    /\ chain_result = <<>>

\* subprocess.run(cmd) and the exit test that ends both functions
RunCommand(cmd) ==
    \E returncode \in ReturnCodes :
        chain_result' = <<[cmd |-> cmd,
                           raised |-> ExitFailed(returncode)]>>

CallProcessVideoWithEffects ==
    /\ chain_call.fn = "process_video_with_effects"
    /\ chain_result = <<>>
    /\ RunCommand(VideoEffectsCommand(AudioFilterOf(chain_call.args.audio_filter),
                                      VideoFilterOf(chain_call.args.video_filter),
                                      chain_call.args.output_format))
    /\ UNCHANGED <<chain_call, presetVars, execVars, streamVars, histVars>>

CallProcessAudio ==
    /\ chain_call.fn = "process_audio"
    /\ chain_result = <<>>
    /\ RunCommand(AudioCommand(chain_call.args))
    /\ UNCHANGED <<chain_call, presetVars, execVars, streamVars, histVars>>

NextCommand == CallProcessVideoWithEffects \/ CallProcessAudio

SpecCommand == InitCommand /\ [][NextCommand]_vars

CommandRun == chain_result # <<>>

\* the positions of a flag in the command
FlagAt(cmd, flag) == { i \in DOMAIN cmd : cmd[i].text = flag }

\* the flag is followed by exactly this filter string
Carries(cmd, flag, filter) ==
    /\ Cardinality(FlagAt(cmd, flag)) = 1
    /\ \A i \in FlagAt(cmd, flag) : i < Len(cmd) /\ cmd[i + 1] = FilterArg(filter)

NoEmptyFilter(cmd) ==
    \A i \in FlagAt(cmd, "-af") \cup FlagAt(cmd, "-vf") :
        i < Len(cmd) /\ cmd[i + 1].text = "" /\ Len(cmd[i + 1].filter) > 0

GraphPresent(filter) == Len(filter) > 0 /\ Len(filter[1]) > 0

\* C17: the command carries -af exactly when an audio filter graph is
\* present and -vf exactly when a video filter graph is present, each
\* followed by that graph, and never passes an empty filter expression.
C17_FilterFlagsOnlyWithGraph ==
    CommandRun =>
        LET cmd == chain_result[1].cmd
            a == chain_call.args
        IN  /\ NoEmptyFilter(cmd)
            /\ chain_call.fn = "process_video_with_effects" =>
                  /\ IF GraphPresent(AudioFilterOf(a.audio_filter))
                     THEN Carries(cmd, "-af", AudioFilterOf(a.audio_filter)[1])
                     ELSE FlagAt(cmd, "-af") = {}
                  /\ IF GraphPresent(VideoFilterOf(a.video_filter))
                     THEN Carries(cmd, "-vf", VideoFilterOf(a.video_filter)[1])
                     ELSE FlagAt(cmd, "-vf") = {}
            /\ chain_call.fn = "process_audio" =>
                  /\ FlagAt(cmd, "-vf") = {}
                  /\ FlagAt(cmd, "-af") # {} <=> (IsMuted(a) \/ ~IsNeutral(a))

\* an empty audio filter string and a video filter graph were handed over
C17_Witness ==
    /\ CommandRun
    /\ chain_call.fn = "process_video_with_effects"
    /\ chain_call.args.audio_filter.given = "empty"
    /\ GraphPresent(VideoFilterOf(chain_call.args.video_filter))
    /\ FlagAt(chain_result[1].cmd, "-vf") # {}

(***************************************************************************)
(* build_video_filter_chain as /process calls it, with the theme-only      *)
(* filters of filters_video.py.                                            *)
(***************************************************************************)
\* build_crop_filter: ratios.get(aspect_ratio, "")
build_crop_filter(aspect_ratio) ==
    IF aspect_ratio \in {"4:3", "16:9", "1:1"}
    THEN << Tok("crop", <<aspect_ratio>>) >> ELSE <<>>

\* build_overlay_filter: three drawtext filters for "security_cam"
build_overlay_filter(overlay_type) ==
    IF overlay_type = "security_cam"
    THEN << Tok("drawtext", <<"localtime">>), Comma, Tok("drawtext", <<"REC">>), Comma,
            Tok("drawtext", <<"CAM 01">>) >>
    ELSE <<>>

build_colorshift_filter(shift_amount) ==
    IF shift_amount <= 0 THEN <<>> ELSE << Tok("rgbashift", <<-shift_amount, shift_amount>>) >>

build_scale_filter(width, height) ==
    IF width <= 0 \/ height <= 0 THEN <<>> ELSE << Tok("scale", <<width, height>>) >>

\* the parameters of build_video_filter_chain
VideoChainParams ==
    {"brightness", "contrast", "saturation", "blur_sigma", "sharpen_amount",
     "transform", "speed"}

\* the keyword arguments of the call in /process
ProcessVideoChainKwargs ==
    VideoChainParams
    \cup {"crop_aspect", "colorshift", "overlay", "scale_width", "scale_height"}

\* a call with keyword arguments: TypeError on a keyword the function
\* does not take
CallVideoChain(kwargs, p) ==
    IF kwargs \subseteq VideoChainParams
    THEN [raised |-> "", filters |-> VideoFilterList(p),
          value |-> build_video_filter_chain(p)]
    ELSE [raised |-> "TypeError", filters |-> <<>>, value |-> None]

ThemeInputs ==
    { [crop_aspect |-> c, colorshift |-> s, overlay |-> o,
       scale_width |-> w[1], scale_height |-> w[2]] :
        c \in {"", "original", "4:3"}, s \in {0, 5}, o \in {"", "security_cam"},
        w \in {<<0, 0>>, <<1280, 720>>, <<1280, 0>>} }

VideoChainCalls ==
    { [fn |-> "build_video_filter_chain", args |-> v] : v \in VideoInputs }
    \cup { [fn |-> "process", args |-> v, theme |-> t] :
             v \in { x \in VideoInputs : x.transform = <<>> /\ x.saturation = One },
             t \in ThemeInputs }

InitVideoChain ==
    /\ PresetsIdle
    /\ ExecIdle
    /\ StreamIdle
    /\ HistIdle
    /\ chain_call \in VideoChainCalls
    /\ chain_result = <<>>

\* the build_video_filter_chain call of /process
ProcessBuildsVideoChain ==
    /\ chain_call.fn = "process"
    /\ chain_result = <<>>
    /\ chain_result' = <<CallVideoChain(ProcessVideoChainKwargs, chain_call.args)>>
    /\ UNCHANGED <<chain_call, presetVars, execVars, streamVars, histVars>>

NextVideoChain == CallBuildVideoChain \/ ProcessBuildsVideoChain

SpecVideoChain == InitVideoChain /\ [][NextVideoChain]_vars

\* the fragments the theme-only filters contribute, in the order crop,
\* colorshift, overlay, scale
ThemeFragments(t) ==
    AppendIfTruthy(
        AppendIfTruthy(
            AppendIfTruthy(
                AppendIfTruthy(<<>>, build_crop_filter(t.crop_aspect)),
                build_colorshift_filter(t.colorshift)),
            build_overlay_filter(t.overlay)),
        build_scale_filter(t.scale_width, t.scale_height))

\* the name of the first filter of each fragment
FragmentNames(fragments) == [i \in DOMAIN fragments |-> fragments[i][1].f]

\* equalize, blur, sharpen and transform, in this order, whichever are
\* present
BaseNames(p) ==
    FragmentNames(
        AppendIfTruthy(
            AppendIfTruthy(
                AppendIfTruthy(
                    AppendIfTruthy(<<>>, build_eq_filter(p.brightness, p.contrast,
                                                         p.saturation)),
                    build_blur_filter(p.blur_sigma)),
                build_sharpen_filter(p.sharpen_amount)),
            build_transform_filter(p.transform)))

SetptsNames(p) == IF REq(p.speed, One) THEN <<>> ELSE <<"setpts">>

VideoChainDone == chain_result # <<>> /\ chain_call.fn \in {"build_video_filter_chain", "process"}

\* C18: build_video_filter_chain emits equalize, blur, sharpen, transform,
\* then crop, colorshift, overlay and scale when those are present, and
\* setpts with factor 1/speed last whenever speed is not 1.0.
C18_VideoFragmentOrder ==
    VideoChainDone =>
        LET p == chain_call.args
            theme == IF chain_call.fn = "process"
                     THEN FragmentNames(ThemeFragments(chain_call.theme)) ELSE <<>>
        IN  /\ chain_call.fn = "process" => chain_result[1].raised = ""
            /\ FragmentNames(chain_result[1].filters)
                  = BaseNames(p) \o theme \o SetptsNames(p)
            /\ ~REq(p.speed, One) =>
                  chain_result[1].filters[Len(chain_result[1].filters)]
                      = <<Tok("setpts", <<RDiv(One, p.speed)>>)>>

(***************************************************************************)
(* build_pitch_filter and build_noise_reduction_filter called on their     *)
(* own.                                                                    *)
(***************************************************************************)
BaseRate == 44100

\* the dB floors and the reduction fractions of the calls; the float
\* product fraction * 100 is exact for each of these fractions
NoiseFloors == { RInt(n) : n \in {-80, -50, -40, -30, -25, -20} }

NoiseFractions ==
    { Zero, R(1, 4), Half, R(7, 10), R(3, 4), R(9, 10), R(97, 100), One,
      R(3, 2), R(-1, 4) }

AudioBuilderCalls ==
    { [fn |-> "build_pitch_filter", args |-> [semitones |-> st]] : st \in PitchSemitones }
    \cup { [fn |-> "build_noise_reduction_filter",
            args |-> [noise_floor |-> nf, noise_reduction |-> nr]] :
             nf \in NoiseFloors, nr \in NoiseFractions }

InitAudioBuilders ==
    /\ PresetsIdle
    /\ ExecIdle
    /\ StreamIdle
    /\ HistIdle
    /\ chain_call \in AudioBuilderCalls
    /\ chain_result = <<>>

CallBuildPitch ==
    /\ chain_call.fn = "build_pitch_filter"
    /\ chain_result = <<>>
    /\ chain_result' = <<build_pitch_filter(chain_call.args.semitones)>>
    /\ UNCHANGED <<chain_call, presetVars, execVars, streamVars, histVars>>

CallBuildNoiseReduction ==
    /\ chain_call.fn = "build_noise_reduction_filter"
    /\ chain_result = <<>>
    /\ chain_result' = <<build_noise_reduction_filter(chain_call.args.noise_floor,
                                                      chain_call.args.noise_reduction)>>
    /\ UNCHANGED <<chain_call, presetVars, execVars, streamVars, histVars>>

NextAudioBuilders == CallBuildPitch \/ CallBuildNoiseReduction

SpecAudioBuilders == InitAudioBuilders /\ [][NextAudioBuilders]_vars

PitchReturned == chain_call.fn = "build_pitch_filter" /\ chain_result # <<>>

NoiseReturned == chain_call.fn = "build_noise_reduction_filter" /\ chain_result # <<>>

\* the names of the filters of a filter string, without the commas
FilterNames(str) ==
    LET toks == SelectSeq(str, LAMBDA t : t.f # ",")
    IN  [i \in DOMAIN toks |-> toks[i].f]

\* rate is base_rate * 2^(semitones/12) truncated, as far as the product
\* of the rates for +semitones and -semitones shows it: the two ratios
\* multiply to 1, and each truncation loses less than 1
TruncatedRatePair(up, down) ==
    /\ up * down <= BaseRate * BaseRate
    /\ up * down > BaseRate * BaseRate - 3 * BaseRate

\* tempo (in millionths) is 1 / ratio to 6 decimals: base_rate * tempo is
\* base_rate * 2^(-semitones/12), whose truncation is the rate for
\* -semitones
TempoInvertsRatio(tempoMicro, down) ==
    /\ (BaseRate \div 100) * tempoMicro >= down * 10000 - 221
    /\ (BaseRate \div 100) * tempoMicro < (down + 1) * 10000 + 221

\* C19: build_pitch_filter returns "" exactly for 0 semitones; otherwise
\* it emits asetrate = base_rate * 2^(semitones/12) truncated to an
\* integer, atempo = 1 / ratio with 6 decimals and aresample = base_rate,
\* in this order; +12 gives twice the base rate with atempo 0.5 and -12
\* half the base rate with atempo 2.0.
C19_PitchFilter ==
    PitchReturned =>
        LET st == chain_call.args.semitones
            str == chain_result[1]
        IN  /\ str = <<>> <=> st = 0
            /\ st # 0 =>
                  /\ FilterNames(str) = <<"asetrate", "atempo", "aresample">>
                  /\ Len(str) = 5
                  /\ str[5].a = <<BaseRate>>
                  /\ TruncatedRatePair(str[1].a[1], PitchNewRate(-st))
                  /\ TempoInvertsRatio(str[3].a[1], PitchNewRate(-st))
                  /\ st > 0 => str[1].a[1] > BaseRate /\ str[3].a[1] < 1000000
                  /\ st < 0 => str[1].a[1] < BaseRate /\ str[3].a[1] > 1000000
            /\ st = 12 => str[1].a = <<2 * BaseRate>> /\ str[3].a = <<500000>>
            /\ st = -12 => 2 * str[1].a[1] = BaseRate /\ str[3].a = <<2000000>>

\* an octave up was asked for
C19_Witness ==
    /\ PitchReturned
    /\ chain_call.args.semitones = 12
    /\ chain_result[1] # <<>>

\* C20: build_noise_reduction_filter returns "" exactly for a reduction
\* fraction of 0.0; otherwise it emits nf = the floor given and nr = the
\* fraction times 100 without clamping: (-40, 0.5) gives nr = 50 and a
\* fraction of 1.0 gives nr = 100.
C20_NoiseReductionFilter ==
    NoiseReturned =>
        LET a == chain_call.args
            str == chain_result[1]
        IN  /\ str = <<>> <=> a.noise_reduction = Zero
            /\ a.noise_reduction # Zero =>
                  /\ Len(str) = 1
                  /\ str[1].f = "afftdn"
                  /\ str[1].a[1] = a.noise_floor
                  /\ str[1].a[2][1] * a.noise_reduction[2]
                        = 100 * a.noise_reduction[1] * str[1].a[2][2]
            /\ (a.noise_floor = RInt(-40) /\ a.noise_reduction = Half) =>
                  str[1].a = <<RInt(-40), RInt(50)>>
            /\ a.noise_reduction = One => str[1].a[2] = RInt(100)

\* the whole reduction was asked for, above the 97 the engine accepts
C20_Witness ==
    /\ NoiseReturned
    /\ chain_call.args.noise_reduction = One
    /\ chain_result[1] # <<>>

(***************************************************************************)
(* The echo fragment of build_audio_filter_chain                           *)
(***************************************************************************)
HasAecho(filters) ==
    \E i \in 1..Len(filters) : filters[i][1].f = "aecho"

SomeDecayPositive(args) ==
    \E i \in 1..Len(args.decays) : args.decays[i][1] > 0

\* C21: build_audio_filter_chain includes the aecho fragment exactly when the
\* delays string is not empty and at least one decay value is greater than
\* zero; all-zero decays give no echo fragment even with delays present.
C21_EchoIffDelaysAndPositiveDecay ==
    AudioReturned =>
        (HasAecho(chain_result[1].filters)
            <=> (Len(chain_call.args.delays) > 0
                 /\ SomeDecayPositive(chain_call.args)))

\* delays are present and every decay is zero: the chain has no aecho
C21_Witness ==
    /\ AudioReturned
    /\ Len(chain_call.args.delays) > 0
    /\ Len(chain_call.args.decays) > 0
    /\ ~SomeDecayPositive(chain_call.args)
    /\ ~HasAecho(chain_result[1].filters)

\* C21 as stated: the aecho fragment is included iff at least one decay value
\* is greater than zero.
C21_EchoIffPositiveDecay ==
    AudioReturned =>
        (HasAecho(chain_result[1].filters)
            <=> SomeDecayPositive(chain_call.args))

(***************************************************************************)
(* models.py: constructing SpeedConfig, PitchConfig, NoiseReductionConfig  *)
(*                                                                         *)
(* The three classes declare their parameters as plain `float` fields, so  *)
(* construction is the field check of Validate.                            *)
(***************************************************************************)
ConfigCategories == {"speed", "pitch", "noise_reduction"}

\* the keyword arguments given to a config class next to name and description
ConfigParams(category) ==
    CASE category = "speed" ->
            { [speed |-> R(k, SpeedDen)] : k \in -8..40 }
      [] category = "pitch" ->
            { [semitones |-> RInt(k)] : k \in -14..14 }
      [] category = "noise_reduction" ->
            { [noise_floor |-> RInt(5 * f), noise_reduction |-> R(q, 4)] :
                f \in -18..-2, q \in -1..5 }

ConfigCalls ==
    UNION { { [fn |-> "config_class",
                args |-> [category |-> c, raw |-> RawEntry(params)]] :
                    params \in ConfigParams(c) } : c \in ConfigCategories }
    \cup { [fn |-> "config_class", args |-> [category |-> c, raw |-> RawIncomplete]] :
                c \in ConfigCategories }

InitConfigs ==
    /\ PresetsIdle
    /\ ExecIdle
    /\ StreamIdle
    /\ HistIdle
    /\ chain_call \in ConfigCalls
    /\ chain_result = <<>>

\* SpeedConfig(**kwargs), PitchConfig(**kwargs), NoiseReductionConfig(**kwargs)
ConstructConfig ==
    /\ chain_call.fn = "config_class"
    /\ chain_result = <<>>
    /\ chain_result' = <<Validate(CONFIG_CLASSES.audio[chain_call.args.category],
                                   chain_call.args.raw)>>
    /\ UNCHANGED <<chain_call, presetVars, execVars, streamVars, histVars>>

NextConfigs == ConstructConfig

SpecConfigs == InitConfigs /\ [][NextConfigs]_vars

ConfigConstructed ==
    chain_call.fn = "config_class" /\ chain_result # <<>>

Between(x, lo, hi) == RLe(lo, x) /\ RLe(x, hi)

\* the ranges the tests of the three classes expect
InDeclaredRange(category, params) ==
    CASE category = "speed" -> Between(params.speed, R(1, 4), RInt(4))
      [] category = "pitch" -> Between(params.semitones, RInt(-12), RInt(12))
      [] category = "noise_reduction" ->
            /\ Between(params.noise_floor, RInt(-80), RInt(-20))
            /\ Between(params.noise_reduction, Zero, One)

\* C22: constructing a preset config with all its fields succeeds exactly when
\* the values lie in the declared ranges (speed in [0.25, 4], semitones in
\* [-12, 12], noise_floor in [-80, -20], noise_reduction in [0, 1]); a value
\* outside its range raises a validation error.
C22_ConstructionSucceedsIffInRange ==
    (ConfigConstructed /\ DOMAIN chain_call.args.raw.params # {}) =>
        ((chain_result[1].err = "")
            <=> InDeclaredRange(chain_call.args.category,
                                chain_call.args.raw.params))

(***************************************************************************)
(* Theme presets: POST /toggle-theme-preset/{media_type}/{preset_key}      *)
(*                                                                         *)
(* A theme preset is [name, filters], filters a list of [type, params].    *)
(* The chain of a media type is kept with the settings of the input file   *)
(* under "audio_theme_chain" / "video_theme_chain".                        *)
(***************************************************************************)
KeyCustom == <<"c", "u", "s", "t", "o", "m">>
KeyRadio == <<"r", "a", "d", "i", "o">>
KeyCave == <<"c", "a", "v", "e">>
KeyVintage == <<"v", "i", "n", "t", "a", "g", "e">>
KeyDream == <<"d", "r", "e", "a", "m">>

FilterStep(type, params) == [type |-> type, params |-> params]

\* presets_themes.yml once loaded: two themes per media type; "cave" sets
\* volume after "radio" did, "vintage" has a step of a type that is no category
ThemePresets ==
    [audio |->
        (KeyRadio :> [name |-> "Radio",
                      filters |-> << FilterStep("volume", [volume |-> R(3, 2)]),
                                     FilterStep("frequency",
                                         [highpass |-> 300, lowpass |-> 3000]) >>]
         @@ KeyCave :> [name |-> "Cave",
                        filters |-> << FilterStep("tunnel", SystemParams["tunnel"]),
                                       FilterStep("volume", [volume |-> Half]) >>]),
     video |->
        (KeyVintage :> [name |-> "Vintage",
                        filters |-> << FilterStep("saturation", [saturation |-> Half]),
                                       FilterStep("grain", [amount |-> One]) >>]
         @@ KeyDream :> [name |-> "Dream",
                         filters |-> << FilterStep("blur", [sigma |-> Two]),
                                        FilterStep("saturation",
                                            [saturation |-> R(3, 2)]) >>])]

\* presets.get(media_type, {}).get(preset_key)
get_theme_preset(media_type, preset_key) ==
    IF media_type \in DOMAIN ThemePresets
       /\ preset_key \in DOMAIN ThemePresets[media_type]
    THEN Some(ThemePresets[media_type][preset_key])
    ELSE None

ChainField(media_type) ==
    IF media_type = "video" THEN "video_theme_chain" ELSE "audio_theme_chain"

\* get_current_theme_chain
get_current_theme_chain(file_settings, media_type) ==
    Get(file_settings, ChainField(media_type), <<>>)

Without(chain, key) == SelectSeq(chain, LAMBDA k : k # key)

InChain(chain, key) == \E i \in 1..Len(chain) : chain[i] = key

\* mutant: a key that is in the chain is moved to the end instead of removed
ToggledChain_MoveToEnd(chain, preset_key) ==
    IF preset_key = KeyNone THEN <<>>
    ELSE Append(Without(chain, preset_key), preset_key)

\* the chain toggle_theme_preset returns: empty for "none", without the key
\* when the chain holds it, with the key at the end otherwise
ToggledChain(chain, preset_key) ==
    IF preset_key = KeyNone THEN <<>>
    ELSE IF InChain(chain, preset_key) THEN Without(chain, preset_key)
    ELSE Append(chain, preset_key)

\* settings.toggle_theme_preset with a file: [settings, chain]
toggle_theme_preset(file_settings, media_type, preset_key) ==
    LET chain == ToggledChain(get_current_theme_chain(file_settings, media_type),
                              preset_key)
    IN  [settings |-> Put(file_settings, ChainField(media_type), chain),
         chain |-> chain]

\* file_metadata.update_file_custom_values: the category gets the preset
\* "custom" and the given values
update_file_custom_values(file_settings, category, custom_values) ==
    Put(file_settings, category,
        [preset |-> KeyCustom, custom_values |-> custom_values])

\* the loop over categories_to_clear: update_category_preset(category, "none", filename)
RECURSIVE ClearCategories(_, _, _)
ClearCategories(file_settings, categories, filename) ==
    IF categories = {} THEN file_settings
    ELSE LET c == CHOOSE x \in categories : TRUE
         IN  ClearCategories(
                update_category_preset(file_settings, c, KeyNone, filename).settings,
                categories \ {c}, filename)

\* the loop over preset.filters
RECURSIVE ApplyFilterSteps(_, _)
ApplyFilterSteps(file_settings, filters) ==
    IF filters = <<>> THEN file_settings
    ELSE ApplyFilterSteps(
            IF Head(filters).type \in ALL_CATEGORIES
            THEN update_file_custom_values(file_settings, Head(filters).type,
                                           Head(filters).params)
            ELSE file_settings,
            Tail(filters))

\* the loop over the chain
RECURSIVE ApplyChain(_, _, _)
ApplyChain(file_settings, media_type, chain) ==
    IF chain = <<>> THEN file_settings
    ELSE LET preset == get_theme_preset(media_type, Head(chain))
         IN  ApplyChain(IF preset # None
                        THEN ApplyFilterSteps(file_settings, preset[1].filters)
                        ELSE file_settings,
                        media_type, Tail(chain))

\* the handler for a valid media type and a file: the settings it leaves
toggle_theme_preset_endpoint(file_settings, media_type, preset_key, filename) ==
    LET toggled == toggle_theme_preset(file_settings, media_type, preset_key)
        cleared == ClearCategories(toggled.settings,
                                   IF media_type = "video" THEN VIDEO_CATEGORIES
                                   ELSE AUDIO_CATEGORIES,
                                   filename)
    IN  ApplyChain(cleared, media_type, toggled.chain)

ThemeKeys(media_type) ==
    {KeyNone} \cup (IF media_type \in DOMAIN ThemePresets
                    THEN DOMAIN ThemePresets[media_type] ELSE {})

NoToggle == [media_type |-> "", preset_key |-> <<>>, before |-> <<>>]

InitThemes ==
    /\ ChainIdle
    /\ ExecIdle
    /\ StreamIdle
    /\ HistIdle
    /\ focus = <<>>
    /\ sys_file = <<>>
    /\ user_file = <<>>
    /\ presets_cache = <<>>
    /\ settings \in {get_default_settings, FullSettings}
    /\ last = [op |-> "start", status |-> 200, toggle |-> NoToggle,
               previous |-> NoToggle]

\* POST /toggle-theme-preset/{media_type}/{preset_key} for the input file
ToggleThemePreset ==
    \E media_type \in MediaTypes :
        \E preset_key \in ThemeKeys(media_type) :
            /\ settings' = toggle_theme_preset_endpoint(settings, media_type,
                                                        preset_key, "clip.mp4")
            /\ last' = [op |-> "toggle", status |-> 200,
                        toggle |-> [media_type |-> media_type,
                                    preset_key |-> preset_key,
                                    before |-> get_current_theme_chain(settings,
                                                                       media_type)],
                        previous |-> last.toggle]
            /\ UNCHANGED <<chainVars, execVars, streamVars, histVars,
                           focus, sys_file, user_file, presets_cache>>

\* the same request with a media type that is neither audio nor video
ToggleThemeInvalidMedia ==
    /\ last' = [op |-> "toggle", status |-> 400, toggle |-> NoToggle,
                previous |-> last.toggle]
    /\ UNCHANGED <<chainVars, execVars, streamVars, histVars,
                   focus, sys_file, user_file, presets_cache, settings>>

NextThemes == ToggleThemePreset \/ ToggleThemeInvalidMedia

SpecThemes == InitThemes /\ [][NextThemes]_vars

Toggled == last.op = "toggle" /\ last.status = 200

ChainNow == get_current_theme_chain(settings, last.toggle.media_type)

\* the key of the last toggle is at position i of the chain
KeyAt(chain, key, i) == i \in 1..Len(chain) /\ chain[i] = key

\* one toggle: "none" empties the chain, a key of the chain is removed and
\* the rest keeps its order, another key is appended at the end
ToggleStepCorrect ==
    LET t == last.toggle
    IN  /\ t.preset_key = KeyNone => ChainNow = <<>>
        /\ (t.preset_key # KeyNone /\ \E i \in 1..Len(t.before) :
                                            KeyAt(t.before, t.preset_key, i))
              => /\ \A i \in 1..Len(ChainNow) : ChainNow[i] # t.preset_key
                 /\ ChainNow = Without(t.before, t.preset_key)
        /\ (t.preset_key # KeyNone /\ \A i \in 1..Len(t.before) :
                                            t.before[i] # t.preset_key)
              => ChainNow = Append(t.before, t.preset_key)

SameToggleTwice ==
    /\ Toggled
    /\ last.previous.media_type = last.toggle.media_type
    /\ last.previous.preset_key = last.toggle.preset_key

RECURSIVE ChainSteps(_, _)
ChainSteps(media_type, chain) ==
    IF chain = <<>> THEN <<>>
    ELSE (IF get_theme_preset(media_type, Head(chain)) # None
          THEN get_theme_preset(media_type, Head(chain))[1].filters
          ELSE <<>>)
         \o ChainSteps(media_type, Tail(chain))

\* the parameters the last step of a category carries, none without a step
LastParamsFor(category, steps) ==
    LET at == { i \in 1..Len(steps) : steps[i].type = category }
    IN  IF at = {} THEN EmptyMap
        ELSE steps[CHOOSE i \in at : \A j \in at : j <= i].params

\* C25: after a theme toggle the custom values of every category of that
\* media type are those of applying the presets of the resulting chain in
\* order, the last preset winning; with an empty chain no category keeps
\* custom values of a theme applied earlier.
C25_CustomValuesFollowChain ==
    Toggled =>
        \A c \in Categories(last.toggle.media_type) :
            load_user_settings(settings)[c].custom_values
                = LastParamsFor(c, ChainSteps(last.toggle.media_type, ChainNow))

(***************************************************************************)
(* The atempo factors of build_speed_filter                                *)
(***************************************************************************)
\* the atempo values of a filter string, in order
AtempoFactors(str) ==
    LET at == SelectSeq(str, LAMBDA t : t.f = "atempo")
    IN  [i \in 1..Len(at) |-> at[i].a[1]]

RECURSIVE RProduct(_)
RProduct(factors) ==
    IF factors = <<>> THEN One
    ELSE RMul(Head(factors), RProduct(Tail(factors)))

\* C24: for every speed r > 0 each atempo factor build_speed_filter emits
\* lies in [0.5, 2.0] and the product of the factors is r, so the tempo of
\* the whole chain is r and a clip of duration d comes out with duration d / r.
C24_FactorsInRangeProductIsSpeed ==
    SpeedReturned =>
        LET factors == AtempoFactors(chain_result[1].str)
        IN  /\ ~chain_result[1].diverged
            /\ \A i \in 1..Len(factors) :
                    RLe(Half, factors[i]) /\ RLe(factors[i], Two)
            /\ REq(RProduct(factors), chain_call.args)

\* a speed above 4.0 gave two factors 2.0 and a third factor for the remainder
C24_Witness ==
    /\ SpeedReturned
    /\ RGt(chain_call.args, RInt(4))
    /\ Len(AtempoFactors(chain_result[1].str)) = 3
    /\ ~REq(AtempoFactors(chain_result[1].str)[3], Two)

(***************************************************************************)
(* The preset cache after the shortcut requests                            *)
(***************************************************************************)
\* get_presets(): what a lookup sees, the cache being loaded when empty
get_presets(cache, sysf, userf) ==
    IF cache = EmptyMap
    THEN LET r == load_presets(sysf, userf)
         IN  IF r.err = "" THEN r.presets ELSE EmptyMap
    ELSE cache

\* the last request was a save, delete or import that wrote the user file
UserFileWritten ==
    /\ last.op \in {"save_shortcut", "delete_shortcut", "import_shortcuts"}
    /\ last.err \notin {"HTTP400", "HTTP404", "HTTP500"}

\* C26: after every save, delete or import request that writes the user
\* preset file, the process-wide preset cache is the merge of the system
\* presets with the user presets now in that file, also after an import in
\* which some entries were rejected and others were written.
C26_CacheFollowsUserFile ==
    (UserFileWritten /\ load_presets(sys_file, user_file).err = "") =>
        get_presets(presets_cache, sys_file, user_file)
            = load_presets(sys_file, user_file).presets

(***************************************************************************)
(* The history record of a processing request                              *)
(***************************************************************************)
\* the external process exited with success: the stream holds a complete event
ProcessSucceeded ==
    \E i \in DOMAIN stream_result[1].events :
        stream_result[1].events[i].event = "complete"

EndsWithError ==
    LET events == stream_result[1].events
    IN  Len(events) > 0 /\ events[Len(events)].event = "error"

\* C27: a history record is appended for a processing request exactly when
\* the external process succeeded: one record for a successful request,
\* none when the process fails or the stream ends with an error event.
C27_HistoryIffProcessSucceeded ==
    Streamed =>
        /\ stream_result[1].history_added <=> ProcessSucceeded
        /\ EndsWithError => ~stream_result[1].history_added

(***************************************************************************)
(* The speed value /process hands to build_speed_filter                    *)
(***************************************************************************)
\* the speed values a theme step or a metadata file may carry: no range is
\* checked on custom_values
SpeedCustomValues == { R(k, 4) : k \in -8..16 }

\* the settings of a file whose speed category carries a custom value
SpeedSettings ==
    {FullSettings}
    \cup { [FullSettings EXCEPT !["speed"] =
                [preset |-> KeyCustom, custom_values |-> [speed |-> v]]] :
            v \in {Zero, RInt(-1), R(1, 4), RInt(3)} }

InitSpeedValue ==
    /\ ChainIdle
    /\ ExecIdle
    /\ StreamIdle
    /\ HistIdle
    /\ focus = <<"audio", "speed">>
    /\ sys_file = <<>>
    /\ user_file = <<>>
    /\ presets_cache = <<>>
    /\ settings \in SpeedSettings
    /\ last = [op |-> "start", speed_val |-> One,
               result |-> [diverged |-> FALSE, str |-> <<>>]]

\* update_category_custom_values("speed", {"speed": v}, filename)
UpdateSpeedCustomValues ==
    \E v \in SpeedCustomValues :
        /\ settings' = update_file_custom_values(settings, "speed", [speed |-> v])
        /\ last' = [op |-> "update_category_custom_values", speed_val |-> v,
                    result |-> [diverged |-> FALSE, str |-> <<>>]]
        /\ UNCHANGED <<chainVars, execVars, streamVars, histVars,
                       focus, sys_file, user_file, presets_cache>>

\* POST /preset/speed/{preset}: update_category_preset keeps the custom values
SelectSpeedPreset ==
    \E preset \in {KeyNone, KeyK1, KeyUnknown} :
        /\ settings' = update_category_preset(settings, "speed", preset,
                                              "clip.mp4").settings
        /\ last' = [op |-> "update_category_preset", speed_val |-> One,
                    result |-> [diverged |-> FALSE, str |-> <<>>]]
        /\ UNCHANGED <<chainVars, execVars, streamVars, histVars,
                       focus, sys_file, user_file, presets_cache>>

\* get_speed_presets(): "none" and one preset that changes the speed
SpeedPresets == KeyNone :> NeutralParams["speed"] @@ KeyK1 :> SystemParams["speed"]

\* POST /process from load_user_settings to the speed fragment of
\* build_audio_filter_chain
ProcessSpeedValue ==
    \E cs \in { load_user_settings(settings)["speed"] } :
        \E speed_val \in { EffectiveValue(cs, ResolveConfig(SpeedPresets, cs.preset)[1],
                                          "speed") } :
            /\ last' = [op |-> "process", speed_val |-> speed_val,
                        result |-> build_speed_filter(speed_val)]
            /\ UNCHANGED <<chainVars, execVars, streamVars, histVars,
                           focus, sys_file, user_file, presets_cache, settings>>

NextSpeedValue == UpdateSpeedCustomValues \/ SelectSpeedPreset \/ ProcessSpeedValue

SpecSpeedValue == InitSpeedValue /\ [][NextSpeedValue]_vars

\* C28: build_speed_filter returns for every speed value /process can hand
\* it, also for a value of 0 or below that comes from the custom_values of
\* the speed category: neither while loop runs without end.
C28_SpeedFilterTerminates ==
    last.op = "process" => ~last.result.diverged

(***************************************************************************)
(* reload_presets while presets.yml changes on disk                        *)
(***************************************************************************)
\* presets.yml is edited, replaced or removed between two requests
ReplaceSystemFile ==
    /\ sys_file' \in SystemFiles(focus[1], focus[2]) \ {sys_file}
    /\ UNCHANGED <<chainVars, execVars, streamVars, histVars, focus, user_file,
                   presets_cache, settings, last>>

NextReload == ReplaceSystemFile \/ ReloadPresets \/ Process

SpecReload == InitShortcuts /\ [][NextReload]_vars

\* C29: when reload_presets fails because presets.yml is missing or holds an
\* invalid entry, the process-wide cache still holds the preset map it held
\* before the call, so later lookups keep resolving against that map.
C29_FailedReloadKeepsCache ==
    [][(last'.op = "reload_presets" /\ last'.err # "")
            => presets_cache' = presets_cache]_vars

(***************************************************************************)
(* The metadata files of the input directory: file_metadata.py             *)
(*                                                                         *)
(* The directory is a mapping from the path of a metadata file to its      *)
(* content [settings, history]; a file name is its sequence of characters. *)
(***************************************************************************)
ClipMp4 == <<"c", "l", "i", "p", ".", "m", "p", "4">>
ClipMp3 == <<"c", "l", "i", "p", ".", "m", "p", "3">>
TalkMp4 == <<"t", "a", "l", "k", ".", "m", "p", "4">>

InputFiles == {ClipMp4, ClipMp3, TalkMp4}

\* Path(filename).stem: the name without its last suffix
Stem(filename) ==
    LET dots == { i \in DOMAIN filename : filename[i] = "." }
    IN  IF dots = {} THEN filename
        ELSE LET i == CHOOSE k \in dots : \A j \in dots : j <= k
             IN  IF 1 < i /\ i < Len(filename) THEN SubSeq(filename, 1, i - 1)
                 ELSE filename

\* get_metadata_path: INPUT_DIR / f"{stem}.yml"
get_metadata_path(filename) == Stem(filename) \o <<".", "y", "m", "l">>

get_default_metadata == [settings |-> get_default_settings, history |-> <<>>]

load_file_metadata(dir, filename) ==
    Get(dir, get_metadata_path(filename), get_default_metadata)

save_file_metadata(dir, filename, metadata) ==
    Put(dir, get_metadata_path(filename), metadata)

get_file_settings(dir, filename) == load_file_metadata(dir, filename).settings

get_file_history(dir, filename) == load_file_metadata(dir, filename).history

InitMetadata ==
    /\ ChainIdle
    /\ PresetsIdle
    /\ ExecIdle
    /\ StreamIdle
    /\ hist_store = EmptyMap
    /\ hist_clock = [now |-> 2, drawn |-> 0, deleted |-> 0]
    /\ hist_last = [op |-> "start", file |-> <<>>, before |-> EmptyMap]

\* file_metadata.update_file_settings(filename, category, preset)
UpdateFileSettings ==
    \E filename \in InputFiles, category \in {"volume", "tunnel", "speed"},
       preset \in {KeyNone, KeyK1} :
        LET metadata == load_file_metadata(hist_store, filename)
            updated == [metadata EXCEPT
                          !.settings = update_file_settings(@, category, preset)]
        IN  /\ hist_store' = save_file_metadata(hist_store, filename, updated)
            /\ hist_last' = [op |-> "update_file_settings", file |-> filename,
                             before |-> hist_store]
            /\ UNCHANGED <<chainVars, presetVars, execVars, streamVars, hist_clock>>

\* file_metadata.add_history_entry(filename, entry_id, ...)
AddFileHistory ==
    /\ hist_clock.drawn < MaxAdds
    /\ \E filename \in InputFiles :
        LET metadata == load_file_metadata(hist_store, filename)
            entry == HistoryEntry(FirstNewId + hist_clock.drawn, hist_clock.now,
                                  "")
            updated == [metadata EXCEPT !.history = add_history_entry(@, entry)]
        IN  /\ hist_store' = save_file_metadata(hist_store, filename, updated)
            /\ hist_clock' = [hist_clock EXCEPT !.drawn = @ + 1]
            /\ hist_last' = [op |-> "add_history_entry", file |-> filename,
                             before |-> hist_store]
    /\ UNCHANGED <<chainVars, presetVars, execVars, streamVars>>

NextMetadata == UpdateFileSettings \/ AddFileHistory

SpecMetadata == InitMetadata /\ [][NextMetadata]_vars

\* C30: writing the settings or the history of one input file changes
\* neither the settings nor the history read for any other input file
\* name, also for two names that differ only in their extension.
C30_WritesAreConfinedToTheFile ==
    hist_last.op \in {"update_file_settings", "add_history_entry"} =>
        \A other \in InputFiles \ {hist_last.file} :
            /\ get_file_settings(hist_store, other)
                    = get_file_settings(hist_last.before, other)
            /\ get_file_history(hist_store, other)
                    = get_file_history(hist_last.before, other)

====
